---------------------------- MODULE Spec2Model ----------------------------
(***************************************************************************)
(* Screening and scoring pipeline of the stock screener:                   *)
(*   src/src/scoring_engine.py     ScoringEngine (aggregation and ranking) *)
(*   src/main.py                   StockScreener.run_screening             *)
(*   src/src/filters/*.py          the three hard filters                  *)
(*   src/src/strategy/*.py         the signal detectors                    *)
(*   src/src/trend_scoring/*.py    the trend scorer                        *)
(*                                                                         *)
(* Numbers.  Python floats are modelled as fixed-point integers:           *)
(*   - a score (liquidity score, trend total, signal score, final total)   *)
(*     is a count of thousandths, so 100.0 is 100000 and 73.456 is 73456;  *)
(*   - a weight is a count of hundredths, so 0.20 is 20;                   *)
(*   - score * weight is therefore a count of 1e-5.                        *)
(* round(x, 2) is modelled by what it does: it maps to the nearest         *)
(* multiple of 0.01, ties to even (Python 3 rounds half to even; a float   *)
(* that is not exactly a decimal half cannot tie, which the fixed-point    *)
(* model does not distinguish).                                            *)
(*                                                                         *)
(* A Python dict whose iteration order the code relies on is a sequence    *)
(* of entries in insertion order; a dict that is only looked up is a       *)
(* function.                                                               *)
(***************************************************************************)
EXTENDS Integers, Sequences, FiniteSets, TLC

VARIABLES
    \* ---- ScoringEngine object (scoring_engine.py:31-38)
    weights,            \* self.weights
    output_count,       \* self.output_count
    \* ---- arguments of score_all / locals of run_screening (main.py:264-290)
    liquidity_scores,   \* {ticker: liquidity_score}
    trend_scores,       \* {ticker: trend_score_dict}
    strategy_results,   \* {strategy_name: [results]}, insertion ordered
    \* ---- a caller of score_all: first call, then a second call
    epc,                \* "ready" | "scored" | "rescored"
    top_n,              \* what the first call returned
    strategy_results2,  \* the strategy_results argument of the second call
    top_n2,             \* what the second call returned
    now,                \* the wall clock datetime.now() reads
    \* ---- the signal list of one ticker and its two scores
    \*      (scoring_engine.py:112-117, 145, 148)
    spc,                \* "grouped" | "scored"
    ticker_signal_list, \* ticker_signals[ticker]
    list_signal_score,  \* _score_signals(ticker_signals[ticker])
    list_multi_score,   \* _score_multi_strategy(ticker_signals[ticker])
    \* ---- StockScreener.run_screening (main.py:216-307)
    pc,                 \* the step run_screening is at
    config,             \* config_manager.config
    stored,             \* the CSV files of data/daily, {ticker: frame}
    stock_data,         \* the local stock_data, insertion ordered
    data_quality_rejected,
    liquidity_rejected,
    trend_rejected,
    result,             \* what run_screening returned
    \* ---- one component called on its own: a scorer, a filter, a constructor
    upc,                \* "ready" | "constructed" | "returned"
    component,          \* the fields of the object the call is made on
    argument,           \* the argument of the call
    returned            \* what the call returned, or the exception it raised

engineVars == <<weights, output_count>>
inputVars  == <<liquidity_scores, trend_scores, strategy_results>>
callerVars == <<epc, top_n, strategy_results2, top_n2>>
signalVars == <<spc, ticker_signal_list, list_signal_score, list_multi_score>>
screenVars == <<pc, config, stored, stock_data, data_quality_rejected,
                liquidity_rejected, trend_rejected, result>>
unitVars == <<upc, component, argument, returned>>
vars == <<engineVars, inputVars, callerVars, now, signalVars, screenVars,
          unitVars>>

-----------------------------------------------------------------------------
(* Bounds of the model *)

\* The tickers of the universe.
Tickers == {"AAA", "BBB"}

\* Largest explicitly configured output_count.
MaxOutputCount == 2
\* Largest number of events one strategy reports in a directly built argument.
MaxResults == 2
\* Largest clock reading.
MaxClock == 1
\* Longest signal list of one ticker.
MaxSignals == 4

-----------------------------------------------------------------------------
(* Fixed-point helpers *)

\* n whole points as a score (thousandths).
Pts(n) == n * 1000

Min(a, b) == IF a <= b THEN a ELSE b
Max(a, b) == IF a >= b THEN a ELSE b

\* Nearest integer to x / d for x >= 0, d > 0, ties to the even quotient.
RoundHalfEven(x, d) ==
    LET q == x \div d
        r == x % d
    IN  IF 2 * r < d THEN q
        ELSE IF 2 * r > d THEN q + 1
        ELSE IF q % 2 = 0 THEN q ELSE q + 1

\* round(score, 2) of a score in thousandths: a multiple of 10 thousandths.
Round2(x) == 10 * RoundHalfEven(x, 10)

\* round(score * weight, 2) of a product in 1e-5: a score in thousandths.
Round2Product(p) == 10 * RoundHalfEven(p, 1000)

\* round(score * weight, 2) of a product in 1e-6: a score in thousandths.
Round2Weighted(p) == 10 * RoundHalfEven(p, 10000)

-----------------------------------------------------------------------------
(* Signal labels.  The source labels are Chinese string literals; the model *)
(* names each by an ASCII string.                                           *)

SigGoldenCross   == "MA_GOLDEN_CROSS"          \* '均线金叉'    builtin_strategies.py:93
SigVolumeSurge   == "VOLUME_SURGE"             \* '成交量放大'  builtin_strategies.py:164
SigBreakout      == "PRICE_BREAKOUT"           \* '价格突破'    builtin_strategies.py:238
SigRsiOversold   == "RSI_OVERSOLD_REBOUND"     \* 'RSI超卖反弹' builtin_strategies.py:303
SigRsiOverbought == "RSI_OVERBOUGHT_PULLBACK"  \* 'RSI超买回落' builtin_strategies.py:309
SigCustom        == "CUSTOM_SIGNAL"            \* '自定义信号'  custom_strategies.py:56

\* A dict.get(key, default) on a dict modelled as a function.
DictGet(d, key, default) == IF key \in DOMAIN d THEN d[key] ELSE default

\* The empty dict {}.
EmptyDict == [k \in {} |-> 0]

-----------------------------------------------------------------------------
(* ScoringEngine (src/src/scoring_engine.py) *)

\* The default weights of __init__ (lines 32-37), in hundredths.
DefaultWeights ==
    [liquidity |-> 20, trend |-> 30, signal |-> 40, multi_strategy |-> 10]

\* The default output_count of __init__ (line 38).
DefaultOutputCount == 20

\* __init__: the two fields the engine reads later.
EngineWeights(final_scoring) == DictGet(final_scoring, "weights", DefaultWeights)
EngineOutputCount(final_scoring) == DictGet(final_scoring, "output_count", DefaultOutputCount)

\* signal_weights of _score_signals (lines 200-206).
signal_weights ==
    (SigGoldenCross :> Pts(30)) @@ (SigBreakout :> Pts(35)) @@
    (SigVolumeSurge :> Pts(25)) @@ (SigRsiOversold :> Pts(20)) @@
    (SigRsiOverbought :> Pts(10))

\* The loop of lines 208-210 with signal_weights.get(signal_type, 0).
RECURSIVE SumBonusKnownOnly(_)
SumBonusKnownOnly(signal_types) ==
    IF signal_types = <<>> THEN 0
    ELSE DictGet(signal_weights, Head(signal_types), 0)
         + SumBonusKnownOnly(Tail(signal_types))

\* The loop of lines 208-210: bonus += signal_weights.get(signal_type, 15).
RECURSIVE SumBonus(_)
SumBonus(signal_types) ==
    IF signal_types = <<>> THEN 0
    ELSE DictGet(signal_weights, Head(signal_types), Pts(15))
         + SumBonus(Tail(signal_types))

\* _score_signals (lines 180-216).
ScoreSignals(signals) ==
    IF signals = <<>> THEN 0
    ELSE LET base_score   == Pts(50)
             signal_types == [i \in 1..Len(signals) |-> signals[i].signal]
             bonus        == Min(SumBonus(signal_types), Pts(50))
             total        == base_score + bonus
         IN  Min(total, Pts(100))

\* _score_multi_strategy (lines 218-237).
ScoreMultiStrategy(signals) ==
    LET num_strategies == Len(signals)
    IN  IF num_strategies >= 3 THEN Pts(100)
        ELSE IF num_strategies = 2 THEN Pts(70)
        ELSE IF num_strategies = 1 THEN Pts(30)
        ELSE 0

\* _calculate_final_score with the clock reading also kept in basic_info.
CalculateFinalScoreAsOf(ticker, liquidity_score, trend_score, signals, w, clock) ==
    LET liq_score            == liquidity_score
        trend_total          == trend_score.total
        signal_score         == ScoreSignals(signals)
        multi_strategy_score == ScoreMultiStrategy(signals)
        final_total ==
            liq_score * w.liquidity +
            trend_total * w.trend +
            signal_score * w.signal +
            multi_strategy_score * w.multi_strategy
    IN  [ ticker               |-> ticker,
          timestamp            |-> clock,
          basic_info           |->
              [price |-> IF signals # <<>> THEN signals[1].price ELSE 0,
               as_of |-> clock],
          liquidity_score      |-> Round2(liq_score),
          trend_score          |-> trend_score,
          strategy_signals     |-> signals,
          signal_score         |-> Round2(signal_score),
          multi_strategy_score |-> Round2(multi_strategy_score),
          final_score          |->
              [ total      |-> Round2Product(final_total),
                components |->
                  [ liquidity      |-> Round2Product(liq_score * w.liquidity),
                    trend          |-> Round2Product(trend_total * w.trend),
                    signal         |-> Round2Product(signal_score * w.signal),
                    multi_strategy |->
                        Round2Product(multi_strategy_score * w.multi_strategy) ] ] ]

\* _calculate_final_score (lines 121-178).  w is self.weights, clock is what
\* datetime.now() returns.
CalculateFinalScore(ticker, liquidity_score, trend_score, signals, w, clock) ==
    LET liq_score            == liquidity_score
        trend_total          == trend_score.total
        signal_score         == ScoreSignals(signals)
        multi_strategy_score == ScoreMultiStrategy(signals)
        final_total ==
            liq_score * w.liquidity +
            trend_total * w.trend +
            signal_score * w.signal +
            multi_strategy_score * w.multi_strategy
    IN  [ ticker               |-> ticker,
          timestamp            |-> clock,
          basic_info           |->
              [price |-> IF signals # <<>> THEN signals[1].price ELSE 0],
          liquidity_score      |-> Round2(liq_score),
          trend_score          |-> trend_score,
          strategy_signals     |-> signals,
          signal_score         |-> Round2(signal_score),
          multi_strategy_score |-> Round2(multi_strategy_score),
          final_score          |->
              [ total      |-> Round2Product(final_total),
                components |->
                  [ liquidity      |-> Round2Product(liq_score * w.liquidity),
                    trend          |-> Round2Product(trend_total * w.trend),
                    signal         |-> Round2Product(signal_score * w.signal),
                    multi_strategy |->
                        Round2Product(multi_strategy_score * w.multi_strategy) ] ] ]

\* _calculate_confidence without the num_signals test of the high tier.
CalculateConfidenceAnySignals(score_result) ==
    LET total       == score_result.final_score.total
        trend_score == score_result.trend_score.total
    IN  IF total >= Pts(80) /\ trend_score >= Pts(70)
        THEN "high"
        ELSE IF total >= Pts(65) /\ trend_score >= Pts(50)
        THEN "medium"
        ELSE "low"

\* _calculate_confidence (lines 239-261).
CalculateConfidence(score_result) ==
    LET total       == score_result.final_score.total
        trend_score == score_result.trend_score.total
        num_signals == Len(score_result.strategy_signals)
    IN  IF total >= Pts(80) /\ trend_score >= Pts(70) /\ num_signals >= 2
        THEN "high"
        ELSE IF total >= Pts(65) /\ trend_score >= Pts(50)
        THEN "medium"
        ELSE "low"

\* The events of strategy_results in the iteration order of lines 106-107,
\* each as the pair (ticker, the dict appended at lines 112-117).
RECURSIVE FlattenResults(_)
FlattenResults(sr) ==
    IF sr = <<>> THEN <<>>
    ELSE LET entry == Head(sr)
         IN  [i \in 1..Len(entry.results) |->
                [ ticker |-> entry.results[i].ticker,
                  sig    |-> [ strategy |-> entry.name,
                               signal   |-> entry.results[i].signal,
                               price    |-> entry.results[i].price,
                               details  |-> DictGet(entry.results[i],
                                                    "details", EmptyDict) ] ]]
             \o FlattenResults(Tail(sr))

\* The keys of ticker_signals in insertion order: each ticker at its first
\* event (lines 109-110).
RECURSIVE FirstSeen(_, _)
FirstSeen(flat, seen) ==
    IF flat = <<>> THEN <<>>
    ELSE IF Head(flat).ticker \in seen THEN FirstSeen(Tail(flat), seen)
    ELSE <<Head(flat).ticker>>
         \o FirstSeen(Tail(flat), seen \cup {Head(flat).ticker})

\* The signals appended under one ticker, in append order.
RECURSIVE SignalsOfTicker(_, _)
SignalsOfTicker(flat, ticker) ==
    IF flat = <<>> THEN <<>>
    ELSE IF Head(flat).ticker = ticker
         THEN <<Head(flat).sig>> \o SignalsOfTicker(Tail(flat), ticker)
         ELSE SignalsOfTicker(Tail(flat), ticker)

\* _group_signals_by_ticker (lines 94-119): the dict ticker_signals as the
\* sequence of its items.
GroupSignalsByTicker(sr) ==
    LET flat == FlattenResults(sr)
        keys == FirstSeen(flat, {})
    IN  [i \in 1..Len(keys) |->
            [ticker |-> keys[i], signals |-> SignalsOfTicker(flat, keys[i])]]

\* One step of list.sort(key=total, reverse=True) (line 80): the sort is
\* stable, so an item goes after every item whose total is >= its own.
RECURSIVE InsertByTotal(_, _)
InsertByTotal(sorted, item) ==
    IF sorted = <<>> THEN <<item>>
    ELSE IF Head(sorted).final_score.total >= item.final_score.total
         THEN <<Head(sorted)>> \o InsertByTotal(Tail(sorted), item)
         ELSE <<item>> \o sorted

\* The sort without reverse=True: ascending, stable.
RECURSIVE InsertAscending(_, _)
InsertAscending(sorted, item) ==
    IF sorted = <<>> THEN <<item>>
    ELSE IF Head(sorted).final_score.total <= item.final_score.total
         THEN <<Head(sorted)>> \o InsertAscending(Tail(sorted), item)
         ELSE <<item>> \o sorted
RECURSIVE SortAscending(_)
SortAscending(all_scores) ==
    IF all_scores = <<>> THEN <<>>
    ELSE InsertAscending(SortAscending(SubSeq(all_scores, 1, Len(all_scores) - 1)),
                         all_scores[Len(all_scores)])

\* all_scores.sort(key=lambda x: x['final_score']['total'], reverse=True).
RECURSIVE SortByTotal(_)
SortByTotal(all_scores) ==
    IF all_scores = <<>> THEN <<>>
    ELSE InsertByTotal(SortByTotal(SubSeq(all_scores, 1, Len(all_scores) - 1)),
                       all_scores[Len(all_scores)])

\* The slice seq[:n] of line 83 (a negative n drops the last -n items).
SliceTo(seq, n) ==
    IF n >= 0 THEN SubSeq(seq, 1, Min(n, Len(seq)))
    ELSE SubSeq(seq, 1, Max(0, Len(seq) + n))

\* ScoredGroups iterating over the scored tickers instead of over
\* ticker_signals.keys(): a ticker without events gets an empty signal list.
RECURSIVE SeqOfSet(_)
SeqOfSet(S) ==
    IF S = {} THEN <<>>
    ELSE LET x == CHOOSE y \in S : TRUE IN <<x>> \o SeqOfSet(S \ {x})
ScoredGroupsOverScores(liq, trend, sr) ==
    LET keys == SeqOfSet(DOMAIN liq \cap DOMAIN trend)
    IN  [i \in 1..Len(keys) |->
            [ ticker  |-> keys[i],
              signals |-> SignalsOfTicker(FlattenResults(sr), keys[i]) ]]

\* Lines 64-77: the groups that are scored, in the iteration order of
\* ticker_signals.keys(); a ticker without both scores is skipped.
ScoredGroups(liq, trend, sr) ==
    SelectSeq(GroupSignalsByTicker(sr),
              LAMBDA g : g.ticker \in DOMAIN liq /\ g.ticker \in DOMAIN trend)

\* WithRank with enumerate(top_n) counting from 0.
WithRankFromZero(item, rank) ==
    [item EXCEPT !.final_score =
        [ total      |-> item.final_score.total,
          components |-> item.final_score.components,
          rank       |-> rank - 1,
          confidence |-> CalculateConfidence(item) ]]

\* Lines 86-88: rank and confidence of the item at position rank.
WithRank(item, rank) ==
    [item EXCEPT !.final_score =
        [ total      |-> item.final_score.total,
          components |-> item.final_score.components,
          rank       |-> rank,
          confidence |-> CalculateConfidence(item) ]]

\* score_all (lines 41-92).
ScoreAll(liq, trend, sr, w, oc, clock) ==
    LET groups     == ScoredGroups(liq, trend, sr)
        all_scores == [i \in 1..Len(groups) |->
                          CalculateFinalScore(groups[i].ticker,
                                              liq[groups[i].ticker],
                                              trend[groups[i].ticker],
                                              groups[i].signals, w, clock)]
        sorted     == SortByTotal(all_scores)
        top        == SliceTo(sorted, oc)
    IN  [rank \in 1..Len(top) |-> WithRank(top[rank], rank)]

-----------------------------------------------------------------------------
(* Arguments a direct caller of score_all passes, drawn from bounded sets *)

\* The weights a configuration may set besides the defaults: the constructor
\* accepts any mapping, also one that does not sum to 1.
ConfiguredWeights ==
    { [liquidity |-> 50, trend |-> 50, signal |-> 50, multi_strategy |-> 50] }

\* The final_scoring configurations: each key present or absent.
EngineConfigs ==
    { EmptyDict }
    \cup { ("output_count" :> n) : n \in 1..MaxOutputCount }
    \cup { ("weights" :> w) : w \in ConfiguredWeights }
    \cup { ("weights" :> w) @@ ("output_count" :> n) :
              w \in ConfiguredWeights, n \in 1..MaxOutputCount }

\* Liquidity scores (0-100) a caller passes: calculate_liquidity_score
\* returns an unrounded float.
LiquidityValues == { 73456 }

\* Trend totals (0-100) a caller passes.
TrendTotals == { Pts(40), Pts(100) }

\* A trend_score dict as far as the engine reads it (it reads 'total').
TrendScoreOf(total) == [total |-> total, pass_threshold |-> total >= Pts(50)]

\* All dicts from a subset of the tickers to the values.
DictsOver(values) ==
    UNION { [S -> values] : S \in SUBSET Tickers }

\* The strategies of a directly built strategy_results and the label each
\* one reports.
DirectStrategies == <<"MA_Crossover", "Custom">>
LabelOf(name) ==
    CASE name = "MA_Crossover" -> SigGoldenCross
      [] name = "Volume_Surge" -> SigVolumeSurge
      [] name = "Breakout"     -> SigBreakout
      [] name = "RSI"          -> SigRsiOversold
      [] OTHER                 -> SigCustom

\* The latest close of a ticker, which every strategy reports as 'price'.
PriceOf(ticker) == IF ticker = "AAA" THEN 1250 ELSE 4075

\* The result dict a strategy appends for a ticker.
EventOf(name, ticker) ==
    [ ticker  |-> ticker,
      signal  |-> LabelOf(name),
      price   |-> PriceOf(ticker),
      details |-> [source |-> name] ]

\* The result lists of one strategy: every list of at most MaxResults events.
ResultLists(name) ==
    UNION { { [i \in 1..n |-> EventOf(name, ts[i])] : ts \in [1..n -> Tickers] } :
            n \in 0..MaxResults }

\* The strategy_results dicts with one key per strategy, in the given order.
RECURSIVE StrategyResultsOver(_)
StrategyResultsOver(names) ==
    IF names = <<>> THEN { <<>> }
    ELSE { <<[name |-> Head(names), results |-> r]>> \o rest :
              r \in ResultLists(Head(names)),
              rest \in StrategyResultsOver(Tail(names)) }

Reverse(seq) == [i \in 1..Len(seq) |-> seq[Len(seq) + 1 - i]]

\* The same mapping with its keys inserted in another order, or its event
\* lists in another order: what another processing order would have built.
Rearrangements(sr) ==
    LET lists == [i \in 1..Len(sr) |->
                     [name |-> sr[i].name, results |-> Reverse(sr[i].results)]]
    IN  { sr, Reverse(sr), lists, Reverse(lists) }

-----------------------------------------------------------------------------
(* A caller of the engine: construct, score_all, score_all again *)

\* The caller of score_all before it starts.
IdleCaller ==
    /\ epc = "idle"
    /\ top_n = <<>>
    /\ strategy_results2 = <<>>
    /\ top_n2 = <<>>

\* No signal list under study.
IdleSignals ==
    /\ spc = "idle"
    /\ ticker_signal_list = <<>>
    /\ list_signal_score = 0
    /\ list_multi_score = 0

\* No screening run under way.
IdleScreening ==
    /\ pc = "idle"
    /\ config = EmptyDict
    /\ stored = EmptyDict
    /\ stock_data = <<>>
    /\ data_quality_rejected = EmptyDict
    /\ liquidity_rejected = EmptyDict
    /\ trend_rejected = EmptyDict
    /\ result = EmptyDict

\* No component called on its own.
IdleUnit ==
    /\ upc = "idle"
    /\ component = EmptyDict
    /\ argument = EmptyDict
    /\ returned = EmptyDict

InitEngine ==
    /\ IdleSignals
    /\ IdleUnit
    /\ IdleScreening
    /\ \E final_scoring \in EngineConfigs :
          /\ weights = EngineWeights(final_scoring)
          /\ output_count = EngineOutputCount(final_scoring)
    /\ liquidity_scores \in DictsOver(LiquidityValues)
    /\ trend_scores \in { [t \in DOMAIN d |-> TrendScoreOf(d[t])] :
                            d \in DictsOver(TrendTotals) }
    /\ strategy_results \in StrategyResultsOver(DirectStrategies)
    /\ epc = "ready"
    /\ top_n = <<>>
    /\ strategy_results2 = <<>>
    /\ top_n2 = <<>>
    /\ now = 0

\* The first call of score_all.
CallScoreAll ==
    /\ epc = "ready"
    /\ top_n' = ScoreAll(liquidity_scores, trend_scores, strategy_results,
                         weights, output_count, now)
    /\ epc' = "scored"
    /\ UNCHANGED <<engineVars, unitVars, inputVars, strategy_results2, top_n2, now,
                   signalVars, screenVars>>

\* Time passes between the two calls.
Tick ==
    /\ epc = "scored"
    /\ now < MaxClock
    /\ now' = now + 1
    /\ UNCHANGED <<engineVars, unitVars, inputVars, callerVars, signalVars, screenVars>>

\* The second call, on the same scores and the same events, the events
\* possibly gathered in another order.
CallScoreAllAgain ==
    /\ epc = "scored"
    /\ \E sr2 \in Rearrangements(strategy_results) :
          /\ strategy_results2' = sr2
          /\ top_n2' = ScoreAll(liquidity_scores, trend_scores, sr2,
                                weights, output_count, now)
    /\ epc' = "rescored"
    /\ UNCHANGED <<engineVars, unitVars, inputVars, top_n, now, signalVars, screenVars>>

NextEngine == CallScoreAll \/ Tick \/ CallScoreAllAgain

SpecEngine == InitEngine /\ [][NextEngine]_vars

-----------------------------------------------------------------------------
(* The signal list of one ticker: grouped, scored, extended *)

\* The (strategy, label) pairs an event can carry: the four built-in
\* strategies (RSI in either mode) and a custom strategy with its own label.
SignalSources ==
    { <<"MA_Crossover", SigGoldenCross>>, <<"Volume_Surge", SigVolumeSurge>>,
      <<"Breakout", SigBreakout>>, <<"RSI", SigRsiOversold>>,
      <<"RSI", SigRsiOverbought>>, <<"Custom", SigCustom>> }

\* The dict appended to ticker_signals[ticker] at lines 112-117.
SignalOf(src) ==
    [strategy |-> src[1], signal |-> src[2], price |-> 1250, details |-> EmptyDict]

\* Every signal list of at most MaxSignals signals.
SignalLists ==
    UNION { { [i \in 1..n |-> SignalOf(srcs[i])] : srcs \in [1..n -> SignalSources] } :
            n \in 0..MaxSignals }

InitSignals ==
    /\ IdleCaller
    /\ IdleScreening
    /\ IdleUnit
    /\ weights = DefaultWeights
    /\ output_count = DefaultOutputCount
    /\ liquidity_scores = EmptyDict
    /\ trend_scores = EmptyDict
    /\ strategy_results = <<>>
    /\ now = 0
    /\ spc = "grouped"
    /\ ticker_signal_list \in SignalLists
    /\ list_signal_score = 0
    /\ list_multi_score = 0

\* Lines 145 and 148 of _calculate_final_score: the two scores of the list.
ScoreSignalList ==
    /\ spc = "grouped"
    /\ list_signal_score' = ScoreSignals(ticker_signal_list)
    /\ list_multi_score' = ScoreMultiStrategy(ticker_signal_list)
    /\ spc' = "scored"
    /\ UNCHANGED <<ticker_signal_list, engineVars, unitVars, inputVars, callerVars, now, screenVars>>

\* The same ticker with one more event grouped under it (lines 112-117),
\* scored again.
ScoreWithOneMore ==
    /\ spc = "scored"
    /\ Len(ticker_signal_list) < MaxSignals
    /\ \E src \in SignalSources :
          LET more == Append(ticker_signal_list, SignalOf(src))
          IN  /\ ticker_signal_list' = more
              /\ list_signal_score' = ScoreSignals(more)
              /\ list_multi_score' = ScoreMultiStrategy(more)
    /\ UNCHANGED <<spc, engineVars, unitVars, inputVars, callerVars, now, screenVars>>

NextSignals == ScoreSignalList \/ ScoreWithOneMore

SpecSignals == InitSignals /\ [][NextSignals]_vars

-----------------------------------------------------------------------------
(* Properties of score_all *)

\* The tickers some strategy reported an event for.
TickersWithSignal(sr) ==
    UNION { { sr[i].results[j].ticker : j \in 1..Len(sr[i].results) } :
            i \in 1..Len(sr) }

\* The eligible tickers: at least one event, a liquidity and a trend score.
EligibleTickers ==
    { t \in TickersWithSignal(strategy_results) :
        t \in DOMAIN liquidity_scores /\ t \in DOMAIN trend_scores }

\* The tickers of a ranked list.
RankedTickers(ranked) == { ranked[i].ticker : i \in 1..Len(ranked) }

\* C1: the ranks of the returned list are 1..N in list order, without gaps or
\* duplicates, N = min(output_count, number of eligible tickers).
C1_RanksConsecutive ==
    epc # "ready" =>
        /\ Len(top_n) = Min(output_count, Cardinality(EligibleTickers))
        /\ \A i \in 1..Len(top_n) : top_n[i].final_score.rank = i

\* A run that ranked two tickers.
C1_Witness ==
    /\ epc = "scored"
    /\ Len(top_n) = 2
    /\ top_n[2].final_score.rank = 2

\* C2 (as claimed): every returned final total is within 0..100, whatever
\* weights the engine was configured with.
C2_TotalWithin0And100 ==
    \A i \in 1..Len(top_n) :
        /\ top_n[i].final_score.total >= 0
        /\ top_n[i].final_score.total <= Pts(100)

\* C3: a ticker no strategy reported an event for is never in the returned
\* list, also when it has a liquidity and a trend score.
C3_NoSignalNeverRanked ==
    \A i \in 1..Len(top_n) :
        top_n[i].ticker \in TickersWithSignal(strategy_results)

\* A run that returned a ranking while a ticker with both scores had no event.
C3_Witness ==
    /\ epc = "scored"
    /\ top_n # <<>>
    /\ \E t \in DOMAIN liquidity_scores \cap DOMAIN trend_scores :
          t \notin TickersWithSignal(strategy_results)

\* The final total of an eligible ticker, as _calculate_final_score gives it.
FinalTotalOf(t) ==
    CalculateFinalScore(t, liquidity_scores[t], trend_scores[t],
                        SignalsOfTicker(FlattenResults(strategy_results), t),
                        weights, 0).final_score.total

\* C5: the returned list is sorted by final total, non-increasing, has at
\* most output_count items, and no eligible ticker left out has a higher
\* total than a ticker included.
C5_SortedTopN ==
    epc # "ready" =>
        /\ Len(top_n) <= output_count
        /\ \A i \in 1..Len(top_n) : \A j \in i..Len(top_n) :
              top_n[i].final_score.total >= top_n[j].final_score.total
        /\ \A t \in EligibleTickers \ RankedTickers(top_n) :
              \A i \in 1..Len(top_n) :
                  FinalTotalOf(t) <= top_n[i].final_score.total

\* A run that left out an eligible ticker with a strictly lower total.
C5_Witness ==
    /\ epc = "scored"
    /\ top_n # <<>>
    /\ \E t \in EligibleTickers \ RankedTickers(top_n) :
          FinalTotalOf(t) < top_n[1].final_score.total

\* The ticker sequence of a ranked list.
TickerSequence(ranked) == [i \in 1..Len(ranked) |-> ranked[i].ticker]

\* C6 (as claimed): the ranked ticker sequence does not depend on the order
\* in which strategies or tickers were processed.
C6_OrderIndependent ==
    epc = "rescored" => TickerSequence(top_n2) = TickerSequence(top_n)

\* A ranked item without its timestamp.
WithoutTimestamp(item) ==
    [k \in DOMAIN item \ {"timestamp"} |-> item[k]]

DistinctStrategies(signals) ==
    Cardinality({ signals[i].strategy : i \in 1..Len(signals) })

\* C8 (as claimed): the resonance score is 100 for 3 or more distinct
\* strategies, 70 for exactly 2, 30 for exactly 1 and 0 for none.
C8_ResonanceByDistinctStrategies ==
    \A i \in 1..Len(top_n) :
        LET n == DistinctStrategies(top_n[i].strategy_signals)
        IN  top_n[i].multi_strategy_score =
                IF n >= 3 THEN Pts(100)
                ELSE IF n = 2 THEN Pts(70)
                ELSE IF n = 1 THEN Pts(30)
                ELSE 0

\* C10: every ranked result has exactly one tier: high iff total >= 80 and
\* trend total >= 70 and at least 2 signals; otherwise medium iff
\* total >= 65 and trend total >= 50; otherwise low.
C10_ConfidenceTier ==
    \A i \in 1..Len(top_n) :
        LET r    == top_n[i]
            high == /\ r.final_score.total >= Pts(80)
                    /\ r.trend_score.total >= Pts(70)
                    /\ Len(r.strategy_signals) >= 2
            med  == /\ r.final_score.total >= Pts(65)
                    /\ r.trend_score.total >= Pts(50)
        IN  /\ r.final_score.confidence \in {"high", "medium", "low"}
            /\ (r.final_score.confidence = "high") <=> high
            /\ (r.final_score.confidence = "medium") <=> (~high /\ med)
            /\ (r.final_score.confidence = "low") <=> (~high /\ ~med)

\* A ranking with a high item, and one with a single signal whose total and
\* trend total would reach the high tier.
C10_Witness ==
    /\ epc = "scored"
    /\ Len(top_n) = 2
    /\ top_n[1].final_score.confidence = "high"
    /\ top_n[2].final_score.confidence = "medium"
    /\ top_n[2].final_score.total >= Pts(80)
    /\ top_n[2].trend_score.total >= Pts(70)
    /\ Len(top_n[2].strategy_signals) = 1

-----------------------------------------------------------------------------
(* Properties of the signal score *)

\* The bonus of a label as the claim lists it.
ClaimedBonus(label) ==
    CASE label = SigGoldenCross   -> 30
      [] label = SigBreakout      -> 35
      [] label = SigVolumeSurge   -> 25
      [] label = SigRsiOversold   -> 20
      [] label = SigRsiOverbought -> 10
      [] OTHER                    -> 15

RECURSIVE ClaimedBonusSum(_)
ClaimedBonusSum(list) ==
    IF list = <<>> THEN 0
    ELSE ClaimedBonus(Head(list).signal) + ClaimedBonusSum(Tail(list))

\* C9: for a non-empty list the signal score is
\* min(100, 50 + min(50, sum of bonuses)), bonus 30/35/25/20/10 for the known
\* labels and 15 for any other; it lies in [60,100], is 0 only for the empty
\* list, and never decreases when a signal is added.
C9_SignalScore ==
    /\ [](spc = "scored" =>
            /\ ticker_signal_list # <<>> =>
                  /\ list_signal_score =
                       Pts(Min(100, 50 + Min(50, ClaimedBonusSum(ticker_signal_list))))
                  /\ list_signal_score >= Pts(60)
                  /\ list_signal_score <= Pts(100)
            /\ (list_signal_score = 0) <=> (ticker_signal_list = <<>>))
    /\ [][(spc = "scored" /\ Len(ticker_signal_list') = Len(ticker_signal_list) + 1)
            => list_signal_score' >= list_signal_score]_vars

\* A scored list with a label outside the table, then one more signal added
\* to a list already at the cap.
C9_Witness ==
    /\ spc = "scored"
    /\ Len(ticker_signal_list) = 3
    /\ ticker_signal_list[1].signal = SigCustom
    /\ ticker_signal_list[2].signal = SigRsiOverbought
    /\ ticker_signal_list[3].signal = SigBreakout
    /\ list_signal_score = Pts(100)

-----------------------------------------------------------------------------
(* Data frames.  A frame is a record of what the pipeline reads from it:   *)
(* its length, its column names, the NaN count of each required column,    *)
(* the last two rows, and the window aggregates the code takes of its      *)
(* tail.  A price, an indicator value, a ratio or a percentage is a count  *)
(* of thousandths like a score; a volume is a count of 10,000 shares, so   *)
(* volume * price is a count of 10 dollars.                                *)

\* np.nan.  A comparison with NaN is false, which Lt, Le, Gt and Ge keep.
NaN == -999999999
IsNa(x) == x = NaN
Lt(a, b) == ~IsNa(a) /\ ~IsNa(b) /\ a < b
Le(a, b) == ~IsNa(a) /\ ~IsNa(b) /\ a <= b
Gt(a, b) == ~IsNa(a) /\ ~IsNa(b) /\ a > b
Ge(a, b) == ~IsNa(a) /\ ~IsNa(b) /\ a >= b

\* None where a frame is expected, and the test for it.
None == [none |-> TRUE]
IsNone(df) == "rows" \notin DOMAIN df

\* The columns of a stored CSV file.
RawColumns == {"date", "open", "high", "low", "close", "volume"}

\* The columns of a frame that hold text instead of numbers (a column of a
\* CSV file with a non-numeric token is read as strings).  Arithmetic on
\* such a column raises TypeError; isna(), max() and min() do not.  The
\* frames of this model carry text in the high column only.
Textual(df) == IF "text" \in DOMAIN df THEN df.text ELSE {}
TypeError(text) == [raised |-> "TypeError", key |-> text]

\* f restricted to the keys in S.
Restrict(f, S) == [k \in (DOMAIN f) \cap S |-> f[k]]

\* The steps of add_all_indicators in code order: the configuration key
\* that enables the step ("" for the unconditional last step), the columns
\* its calculation reads, and the columns it adds.
IndicatorSteps ==
    << [ key |-> "ma_periods", reads |-> {"close"},
         adds |-> {"sma_5", "ema_5", "sma_10", "ema_10", "sma_20", "ema_20",
                   "sma_50", "ema_50", "sma_200", "ema_200"} ],
       [ key |-> "rsi_period", reads |-> {"close"}, adds |-> {"rsi"} ],
       [ key |-> "macd", reads |-> {"close"},
         adds |-> {"macd", "macd_signal", "macd_hist"} ],
       [ key |-> "bollinger", reads |-> {"close"},
         adds |-> {"bb_middle", "bb_upper", "bb_lower"} ],
       [ key |-> "atr_period", reads |-> {"high", "low", "close"},
         adds |-> {"atr"} ],
       [ key |-> "adx_period", reads |-> {"high", "low", "close"},
         adds |-> {"adx", "plus_di", "minus_di"} ],
       [ key |-> "volume_ma_period", reads |-> {"volume"},
         adds |-> {"volume_ma", "volume_ratio"} ],
       [ key |-> "", reads |-> {"close"},
         adds |-> {"price_change_1d", "price_change_5d"} ] >>

\* The columns add_all_indicators has added when it returns: the steps run
\* in order, a step whose key is absent is skipped, and the first step that
\* reads a column that is missing or holds text raises, which ends the try
\* block (lines 370-435).  columns are the numeric columns of the frame.
RECURSIVE AddedColumns(_, _, _)
AddedColumns(columns, indicators_config, i) ==
    IF i > Len(IndicatorSteps) THEN {}
    ELSE LET step == IndicatorSteps[i]
         IN  IF step.key # "" /\ step.key \notin indicators_config
             THEN AddedColumns(columns, indicators_config, i + 1)
             ELSE IF ~(step.reads \subseteq columns)
             THEN {}
             ELSE step.adds \cup
                  AddedColumns(columns \cup step.adds, indicators_config, i + 1)

\* add_all_indicators (indicators.py:343-437).  The values of the new
\* columns are the ones the stored series determines (df.series).
AddAllIndicators(df, indicators_config) ==
    IF df.rows = 0 THEN df
    ELSE LET added == AddedColumns(df.columns \ Textual(df), indicators_config, 1)
         IN  [ df EXCEPT
                 !.columns  = @ \cup added,
                 !.latest   = @ @@ Restrict(df.series.latest, added),
                 !.previous = @ @@ Restrict(df.series.previous, added) ]

-----------------------------------------------------------------------------
(* The three hard filters (src/src/filters).  run_screening builds each    *)
(* with an empty config unless the configuration has a 'screening' key, so *)
(* the parameters are the defaults of the constructors.  A rejection       *)
(* reason is the message's text and the values formatted into it.          *)

Reason(text, args) == [text |-> text, args |-> args]
Passed == [passed |-> TRUE, reason |-> Reason("", <<>>)]
Rejected(text, args) == [passed |-> FALSE, reason |-> Reason(text, args)]

\* The keys of an insertion-ordered dict and the value under a key.
Keys(data) == { data[i].ticker : i \in 1..Len(data) }
ValueOf(data, ticker) ==
    data[CHOOSE i \in 1..Len(data) : data[i].ticker = ticker].df

\* The column labels a frame carries more than once.  Selecting such a
\* label yields one value per occurrence, and testing a comparison of it in
\* an if statement raises ValueError with this text.
Duplicated(df) == IF "duplicated" \in DOMAIN df THEN df.duplicated ELSE {}
AmbiguousTruth == "The truth value of a Series is ambiguous"

\* DataQualityFilter.__init__ defaults.
min_data_points == 100
required_columns == <<"close", "volume", "high", "low">>

\* nan_ratio > 0.1 for column col, nan_ratio = nan_count / len(df).
TooManyNaN(df, col) == df.nan_count[col] * 10 > df.rows

\* The body of DataQualityFilter.filter's loop (lines 44-75).
DataQualityCheck(df) ==
    LET missing_columns ==
            { required_columns[i] : i \in 1..Len(required_columns) } \ df.columns
        bad == { i \in 1..Len(required_columns) :
                    \/ required_columns[i] \in Duplicated(df)
                    \/ TooManyNaN(df, required_columns[i]) }
    IN  IF IsNone(df) \/ df.rows = 0
        THEN Rejected("empty", <<>>)
        ELSE IF df.rows < min_data_points
        THEN Rejected("too_few_rows", <<df.rows, min_data_points>>)
        ELSE IF missing_columns # {}
        THEN Rejected("missing_columns", <<missing_columns>>)
        ELSE IF bad # {}
        THEN LET first == CHOOSE i \in bad : \A j \in bad : i <= j
             IN  IF required_columns[first] \in Duplicated(df)
                 THEN Rejected("error", <<AmbiguousTruth>>)
                 ELSE Rejected("too_many_nan", <<required_columns[first]>>)
        ELSE Passed

\* DataQualityFilter.filter with an except clause that records nothing: a
\* ticker whose processing raises is in neither dict.
DataQualityFilterDropErrors(data) ==
    LET out == { t \in Keys(data) :
                   /\ ~DataQualityCheck(ValueOf(data, t)).passed
                   /\ DataQualityCheck(ValueOf(data, t)).reason.text # "error" }
    IN  [ passed   |-> SelectSeq(data, LAMBDA entry : DataQualityCheck(entry.df).passed),
          rejected |-> [ t \in out |-> DataQualityCheck(ValueOf(data, t)).reason ] ]

\* DataQualityFilter.filter (lines 30-78): each ticker of the input goes to
\* passed, in input order, or to rejected with the reason.
DataQualityFilter(data) ==
    LET out == { t \in Keys(data) : ~DataQualityCheck(ValueOf(data, t)).passed }
    IN  [ passed   |-> SelectSeq(data, LAMBDA entry : DataQualityCheck(entry.df).passed),
          rejected |-> [ t \in out |-> DataQualityCheck(ValueOf(data, t)).reason ] ]

\* LiquidityFilter.__init__ defaults: 1,000,000 dollars, 5.0 dollars, 20 days.
min_avg_dollar_volume == 100000
min_price == 5000
volume_period == 20

\* avg_volume * avg_price over df.tail(volume_period).
\* mean() skips NaN, so a mean is NaN when every value of the window is.
AvgDollarVolume(df) ==
    IF IsNa(df.volume_mean_20) \/ IsNa(df.close_mean_20) THEN NaN
    ELSE df.volume_mean_20 * df.close_mean_20

\* The body of LiquidityFilter.filter's loop without the price test of lines
\* 51-55.
LiquidityCheckAnyPrice(df) ==
    IF IsNone(df) \/ df.rows = 0
    THEN Rejected("empty", <<>>)
    ELSE IF "close" \notin df.columns
    THEN Rejected("error", <<"close">>)
    ELSE IF df.rows < volume_period
    THEN Rejected("too_few_rows", <<volume_period>>)
    ELSE IF "volume" \notin df.columns
    THEN Rejected("error", <<"volume">>)
    ELSE IF "volume" \in Duplicated(df) \/ "close" \in Duplicated(df)
    THEN Rejected("error", <<AmbiguousTruth>>)
    ELSE IF Lt(AvgDollarVolume(df), min_avg_dollar_volume)
    THEN Rejected("dollar_volume_too_low",
                  <<AvgDollarVolume(df), min_avg_dollar_volume>>)
    ELSE Passed

\* The body of LiquidityFilter.filter's loop (lines 46-76); a missing column
\* raises KeyError and a duplicated one ValueError, which the except clause
\* turns into a rejection.
LiquidityCheck(df) ==
    IF IsNone(df) \/ df.rows = 0
    THEN Rejected("empty", <<>>)
    ELSE IF "close" \notin df.columns
    THEN Rejected("error", <<"close">>)
    ELSE IF "close" \in Duplicated(df)
    THEN Rejected("error", <<AmbiguousTruth>>)
    ELSE IF Lt(df.latest["close"], min_price)
    THEN Rejected("price_too_low", <<Round2(df.latest["close"]), min_price>>)
    ELSE IF df.rows < volume_period
    THEN Rejected("too_few_rows", <<volume_period>>)
    ELSE IF "volume" \notin df.columns
    THEN Rejected("error", <<"volume">>)
    ELSE IF "volume" \in Duplicated(df)
    THEN Rejected("error", <<AmbiguousTruth>>)
    ELSE IF Lt(AvgDollarVolume(df), min_avg_dollar_volume)
    THEN Rejected("dollar_volume_too_low",
                  <<AvgDollarVolume(df), min_avg_dollar_volume>>)
    ELSE Passed

\* LiquidityFilter.filter with its test removed: every ticker passes.
LiquidityFilterKeepAll(data) ==
    [ passed |-> data, rejected |-> EmptyDict ]

\* LiquidityFilter.filter (lines 32-79).
LiquidityFilter(data) ==
    LET out == { t \in Keys(data) : ~LiquidityCheck(ValueOf(data, t)).passed }
    IN  [ passed   |-> SelectSeq(data, LAMBDA entry : LiquidityCheck(entry.df).passed),
          rejected |-> [ t \in out |-> LiquidityCheck(ValueOf(data, t)).reason ] ]


\* TrendFilter.__init__ defaults: 0.0, True, True.
min_20d_return == 0
require_above_ma50 == TRUE
require_ma20_uptrend == TRUE

\* A value as an f-string formats it to two decimals.
Fmt2(x) == IF IsNa(x) THEN NaN ELSE Round2(x)

\* return_20d < min_20d_return, return_20d = (current_price - price_20d_ago)
\* / price_20d_ago, for a positive price 20 rows back.
Return20dBelow(current_price, price_20d_ago) ==
    /\ ~IsNa(current_price)
    /\ ~IsNa(price_20d_ago)
    /\ (current_price - price_20d_ago) * 1000 < min_20d_return * price_20d_ago

\* The body of TrendFilter.filter's loop (lines 46-101).
TrendCheck(df) ==
    LET current_price == df.latest["close"]
        ma50          == df.latest["sma_50"]
        recent_ma20   == df.series.sma_20_tail
        ma20_now      == recent_ma20[5]
        ma20_5d_ago   == recent_ma20[1]
    IN  IF IsNone(df) \/ df.rows < 50
        THEN Rejected("too_few_rows", <<50>>)
        ELSE IF "close" \notin df.columns
        THEN Rejected("error", <<"close">>)
        ELSE IF "close" \in Duplicated(df)
        THEN Rejected("error", <<AmbiguousTruth>>)
        ELSE IF df.rows >= 20 /\ Return20dBelow(current_price, df.close_20)
        THEN Rejected("return_20d_too_low", <<current_price, df.close_20>>)
        ELSE IF require_above_ma50 /\ "sma_50" \notin df.columns
        THEN Rejected("missing_ma50", <<>>)
        ELSE IF require_above_ma50 /\ "sma_50" \in Duplicated(df)
        THEN Rejected("error", <<AmbiguousTruth>>)
        ELSE IF require_above_ma50 /\ (IsNa(ma50) \/ Le(current_price, ma50))
        THEN Rejected("below_ma50", <<Fmt2(current_price), Fmt2(ma50)>>)
        ELSE IF require_ma20_uptrend /\ "sma_20" \notin df.columns
        THEN Rejected("missing_ma20", <<>>)
        ELSE IF require_ma20_uptrend /\ df.rows >= 25
                /\ "sma_20" \in Duplicated(df)
        THEN Rejected("error", <<AmbiguousTruth>>)
        ELSE IF require_ma20_uptrend /\ df.rows >= 25
                /\ \E i \in 1..5 : IsNa(recent_ma20[i])
        THEN Rejected("ma20_incomplete", <<>>)
        ELSE IF require_ma20_uptrend /\ df.rows >= 25
                /\ ma20_now - ma20_5d_ago <= 0
        THEN Rejected("ma20_falling", <<ma20_now, ma20_5d_ago>>)
        ELSE Passed

\* TrendFilter.filter (lines 32-104).
TrendFilter(data) ==
    LET out == { t \in Keys(data) : ~TrendCheck(ValueOf(data, t)).passed }
    IN  [ passed   |-> SelectSeq(data, LAMBDA entry : TrendCheck(entry.df).passed),
          rejected |-> [ t \in out |-> TrendCheck(ValueOf(data, t)).reason ] ]

-----------------------------------------------------------------------------
(* MAADXScorer (src/src/trend_scoring/ma_adx_scorer.py) *)

\* MAADXScorer.__init__ default weights (lines 33-38), in thousandths.
trend_weights ==
    [ma_alignment |-> 400, adx_strength |-> 350,
     price_momentum |-> 150, price_position |-> 100]

\* MAADXScorer.__init__ (lines 18-38).
ScorerWeights(trend_config) == DictGet(trend_config, "weights", trend_weights)

\* MAADXScorer(trend_config): the object score is called on.
MAADXScorer(trend_config) == [weights |-> ScorerWeights(trend_config)]

\* _score_ma_alignment counting a condition as met on equality too.
ScoreMaAlignmentOrEqual(latest) ==
    LET ma5   == DictGet(latest, "sma_5", 0)
        ma10  == DictGet(latest, "sma_10", 0)
        ma20  == DictGet(latest, "sma_20", 0)
        ma50  == DictGet(latest, "sma_50", 0)
        price == latest["close"]
        alignment_count ==
            (IF Ge(price, ma5) THEN 1 ELSE 0) + (IF Ge(ma5, ma10) THEN 1 ELSE 0) +
            (IF Ge(ma10, ma20) THEN 1 ELSE 0) + (IF Ge(ma20, ma50) THEN 1 ELSE 0)
    IN  IF IsNa(ma5) \/ IsNa(ma10) \/ IsNa(ma20) \/ IsNa(ma50)
        THEN [score |-> 0, details |-> [status |-> "no_data"]]
        ELSE [ score   |-> Pts(25 * alignment_count),
               details |-> [alignment_count |-> alignment_count] ]

\* _score_ma_alignment (lines 110-164).
ScoreMaAlignment(latest) ==
    LET ma5   == DictGet(latest, "sma_5", 0)
        ma10  == DictGet(latest, "sma_10", 0)
        ma20  == DictGet(latest, "sma_20", 0)
        ma50  == DictGet(latest, "sma_50", 0)
        price == latest["close"]
        alignment_count ==
            (IF Gt(price, ma5) THEN 1 ELSE 0) + (IF Gt(ma5, ma10) THEN 1 ELSE 0) +
            (IF Gt(ma10, ma20) THEN 1 ELSE 0) + (IF Gt(ma20, ma50) THEN 1 ELSE 0)
    IN  IF IsNa(ma5) \/ IsNa(ma10) \/ IsNa(ma20) \/ IsNa(ma50)
        THEN [score |-> 0, details |-> [status |-> "no_data"]]
        ELSE [ score   |-> Pts(25 * alignment_count),
               details |->
                 [ status |-> CASE alignment_count = 4 -> "perfect_bullish"
                                [] alignment_count = 3 -> "strong_bullish"
                                [] alignment_count = 2 -> "moderate_bullish"
                                [] alignment_count = 1 -> "weak_bullish"
                                [] OTHER               -> "no_alignment",
                   alignment_count |-> alignment_count,
                   price |-> Fmt2(price), ma5 |-> Round2(ma5),
                   ma10 |-> Round2(ma10), ma20 |-> Round2(ma20),
                   ma50 |-> Round2(ma50) ] ]

\* _score_adx_strength with the ideal range open at both ends.
ScoreAdxStrengthOpenRange(latest) ==
    LET adx      == DictGet(latest, "adx", NaN)
        plus_di  == DictGet(latest, "plus_di", NaN)
        minus_di == DictGet(latest, "minus_di", NaN)
        graded ==
            IF plus_di <= minus_di THEN <<0, "downtrend">>
            ELSE IF Pts(25) < adx /\ adx < Pts(40) THEN <<100, "strong_uptrend">>
            ELSE IF Pts(40) < adx /\ adx <= Pts(50) THEN <<70, "very_strong_uptrend">>
            ELSE IF adx > Pts(50) THEN <<50, "overheated">>
            ELSE IF Pts(20) <= adx /\ adx < Pts(25) THEN <<60, "forming_uptrend">>
            ELSE <<30, "weak_trend">>
    IN  IF IsNa(adx) \/ IsNa(plus_di) \/ IsNa(minus_di)
        THEN [score |-> 0, details |-> [status |-> "no_data"]]
        ELSE [ score   |-> Pts(graded[1]),
               details |-> [status |-> graded[2]] ]

\* _score_adx_strength (lines 166-216).
ScoreAdxStrength(latest) ==
    LET adx      == DictGet(latest, "adx", NaN)
        plus_di  == DictGet(latest, "plus_di", NaN)
        minus_di == DictGet(latest, "minus_di", NaN)
        graded ==
            IF plus_di <= minus_di THEN <<0, "downtrend">>
            ELSE IF Pts(25) <= adx /\ adx <= Pts(40) THEN <<100, "strong_uptrend">>
            ELSE IF Pts(40) < adx /\ adx <= Pts(50) THEN <<70, "very_strong_uptrend">>
            ELSE IF adx > Pts(50) THEN <<50, "overheated">>
            ELSE IF Pts(20) <= adx /\ adx < Pts(25) THEN <<60, "forming_uptrend">>
            ELSE <<30, "weak_trend">>
    IN  IF IsNa(adx) \/ IsNa(plus_di) \/ IsNa(minus_di)
        THEN [score |-> 0, details |-> [status |-> "no_data"]]
        ELSE [ score   |-> Pts(graded[1]),
               details |-> [ status |-> graded[2], adx |-> Round2(adx),
                             plus_di |-> Round2(plus_di),
                             minus_di |-> Round2(minus_di),
                             di_diff |-> Round2(plus_di - minus_di) ] ]

\* _score_price_momentum (lines 218-256).
ScorePriceMomentum(latest) ==
    LET return_5d == DictGet(latest, "price_change_5d", 0)
        graded ==
            IF return_5d >= Pts(10) THEN <<100, "strong_momentum">>
            ELSE IF return_5d >= Pts(5) THEN <<70, "good_momentum">>
            ELSE IF return_5d >= Pts(2) THEN <<50, "moderate_momentum">>
            ELSE IF return_5d >= 0 THEN <<30, "weak_momentum">>
            ELSE <<0, "negative_momentum">>
    IN  IF IsNa(return_5d)
        THEN [score |-> 0, details |-> [status |-> "no_data"]]
        ELSE [ score   |-> Pts(graded[1]),
               details |-> [ status |-> graded[2],
                             return_pct |-> Round2(return_5d) ] ]


\* _score_price_position (lines 258-310).  position = (current_price -
\* low_20) / (high_20 - low_20) is compared by cross-multiplication; a NaN
\* position fails every comparison and falls to the last branch.
ScorePricePosition(df) ==
    LET high_20       == df.high_20
        low_20        == df.low_20
        current_price == df.latest["close"]
        num           == current_price - low_20
        den           == high_20 - low_20
        known         == ~IsNa(current_price)
        graded ==
            IF known /\ 50 * den <= 100 * num /\ 100 * num <= 75 * den
            THEN <<100, "ideal_position">>
            ELSE IF known /\ 75 * den < 100 * num /\ 100 * num <= 85 * den
            THEN <<80, "high_position">>
            ELSE IF known /\ 30 * den <= 100 * num /\ 100 * num < 50 * den
            THEN <<60, "mid_position">>
            ELSE IF known /\ 100 * num > 85 * den
            THEN <<30, "too_high">>
            ELSE <<20, "low_position">>
    IN  IF df.rows < 20
        THEN [score |-> Pts(50), details |-> [status |-> "insufficient_data"]]
        ELSE IF high_20 = low_20
        THEN [score |-> Pts(50), details |-> [status |-> "flat"]]
        ELSE [ score   |-> Pts(graded[1]),
               details |->
                 [ status   |-> graded[2],
                   position |-> IF known THEN RoundHalfEven(num * 1000, den)
                                ELSE NaN,
                   high_20d |-> Round2(high_20), low_20d |-> Round2(low_20),
                   current  |-> Fmt2(current_price) ] ]

\* MAADXScorer.VERSION and NAME (lines 14-15).
NAME == "ma_adx"
VERSION == "1.0.0"

\* One entry of 'components' (lines 78-101).  The product of a score in
\* thousandths and a weight in thousandths is a count of 1e-6.
Component(scored, weight) ==
    [ score          |-> Round2(scored.score),
      weight         |-> weight,
      weighted_score |-> Round2Weighted(scored.score * weight),
      details        |-> scored.details ]

\* self.weights[key] of a dict without that key.
KeyError(key) == [raised |-> "KeyError", key |-> key]

\* The first weight the scorer looks up and does not find (lines 65-68,
\* 326-329), "" when all four are there.
MissingWeight(self) ==
    CASE "ma_alignment" \notin DOMAIN self.weights   -> "ma_alignment"
      [] "adx_strength" \notin DOMAIN self.weights   -> "adx_strength"
      [] "price_momentum" \notin DOMAIN self.weights -> "price_momentum"
      [] "price_position" \notin DOMAIN self.weights -> "price_position"
      [] OTHER                                       -> ""

\* _empty_score without the error tag in its details.
EmptyScoreUntagged(self) ==
    LET none == [score |-> 0, details |-> EmptyDict]
        w    == self.weights
    IN  IF MissingWeight(self) # "" THEN KeyError(MissingWeight(self))
        ELSE
        [ total      |-> 0,
          components |->
            [ ma_alignment   |-> Component(none, w.ma_alignment),
              adx_strength   |-> Component(none, w.adx_strength),
              price_momentum |-> Component(none, w.price_momentum),
              price_position |-> Component(none, w.price_position) ],
          pass_threshold |-> FALSE,
          details    |-> [scorer |-> NAME, version |-> VERSION] ]

\* _empty_score (lines 321-333).
EmptyScore(self) ==
    LET none == [score |-> 0, details |-> EmptyDict]
        w    == self.weights
    IN  IF MissingWeight(self) # "" THEN KeyError(MissingWeight(self))
        ELSE
        [ total      |-> 0,
          components |->
            [ ma_alignment   |-> Component(none, w.ma_alignment),
              adx_strength   |-> Component(none, w.adx_strength),
              price_momentum |-> Component(none, w.price_momentum),
              price_position |-> Component(none, w.price_position) ],
          pass_threshold |-> FALSE,
          details    |-> [scorer |-> NAME, version |-> VERSION,
                          error |-> "empty_data"] ]

\* _score_price_position raises where it subtracts low_20 from high_20
\* (lines 283-291) when one of them is text.
PricePositionRaises(df) ==
    df.rows >= 20 /\ {"high", "low"} \cap Textual(df) # {}

\* MAADXScorer.score (lines 40-108).  total is a count of 1e-6 before it
\* is rounded; pass_threshold tests the unrounded total against 50.0.  The
\* sub-scores are computed before the weights are looked up, and nothing in
\* score catches what they raise.
Score(self, df) ==
    IF IsNone(df) \/ df.rows = 0 THEN EmptyScore(self)
    ELSE IF PricePositionRaises(df) THEN TypeError("unsupported operand type(s) for -")
    ELSE IF MissingWeight(self) # "" THEN KeyError(MissingWeight(self))
    ELSE LET ma       == ScoreMaAlignment(df.latest)
             adx      == ScoreAdxStrength(df.latest)
             momentum == ScorePriceMomentum(df.latest)
             position == ScorePricePosition(df)
             w        == self.weights
             total ==
                 ma.score * w.ma_alignment +
                 adx.score * w.adx_strength +
                 momentum.score * w.price_momentum +
                 position.score * w.price_position
         IN  [ total      |-> Round2Weighted(total),
               components |->
                 [ ma_alignment   |-> Component(ma, w.ma_alignment),
                   adx_strength   |-> Component(adx, w.adx_strength),
                   price_momentum |-> Component(momentum, w.price_momentum),
                   price_position |-> Component(position, w.price_position) ],
               pass_threshold |-> total >= 1000 * Pts(50),
               details    |-> [scorer |-> NAME, version |-> VERSION] ]

-----------------------------------------------------------------------------
(* ScoringEngine.calculate_liquidity_score (scoring_engine.py:263-303),    *)
(* called with the liquidity filter's config, empty by default.            *)

\* config.get('excellent_threshold', 10000000) dollars.
excellent_threshold == 1000000

\* min(a, b) of Python: b if b < a, else a, so that min(nan, b) is nan.
PyMin(a, b) == IF Lt(b, a) THEN b ELSE a

\* The score in thousandths.  60 + 40 * (adv - min) / (excellent - min) is
\* computed with both terms of the quotient divided by 100 so that the
\* product stays within 32-bit integers; so is 50 * adv / min.
CalculateLiquidityScore(df) ==
    LET avg_dollar_volume == AvgDollarVolume(df)
        min_threshold     == min_avg_dollar_volume
        score ==
            IF Ge(avg_dollar_volume, excellent_threshold)
            THEN Pts(100)
            ELSE IF Ge(avg_dollar_volume, min_threshold)
            THEN Pts(60) + ((avg_dollar_volume - min_threshold) * 400)
                             \div ((excellent_threshold - min_threshold) \div 100)
            ELSE IF IsNa(avg_dollar_volume) THEN NaN
            ELSE (avg_dollar_volume * 500) \div (min_threshold \div 100)
    IN  IF ~({"close", "volume"} \subseteq df.columns)
        THEN Pts(50)
        ELSE IF df.rows < volume_period
        THEN Pts(50)
        ELSE PyMin(score, Pts(100))

-----------------------------------------------------------------------------
(* The signal detectors (src/src/strategy/builtin_strategies.py).  A       *)
(* strategy object is its name and the config it was built with;           *)
(* get_config_value falls back to the default of the class.                *)

\* BaseStrategy.validate_data (base_strategy.py:76-95).
ValidateData(df, required_cols) ==
    df.rows # 0 /\ required_cols \subseteq df.columns

\* A frame that has rows and the required columns (validate_data,
\* base_strategy.py:76-95); None has neither.
Scannable(df, required_cols) == ~IsNone(df) /\ ValidateData(df, required_cols)

\* The frames on which the try block of MACrossoverStrategy.scan raises
\* (lines 50-101): testing a comparison of a column label the frame carries
\* twice raises ValueError.  A close label carried twice raises nothing in
\* this scan and is not among the frames scanned here.
MACrossoverRaises(df, strategy_config) ==
    LET volume_confirm == DictGet(strategy_config, "volume_confirm", TRUE)
    IN  /\ Scannable(df, {"close", "volume"})
        /\ df.rows >= 50 + 1
        /\ {"sma_20", "sma_50"} \subseteq df.columns
        /\ \/ {"sma_20", "sma_50"} \cap Duplicated(df) # {}
           \/ /\ Le(df.previous["sma_20"], df.previous["sma_50"])
              /\ Gt(df.latest["sma_20"], df.latest["sma_50"])
              /\ volume_confirm
              /\ "volume_ratio" \in df.columns \cap Duplicated(df)

\* MACrossoverStrategy.scan (lines 30-103), short_period 20, long_period 50.
MACrossoverHit(df, strategy_config) ==
    LET volume_confirm == DictGet(strategy_config, "volume_confirm", TRUE)
        short_ma_now   == df.latest["sma_20"]
        long_ma_now    == df.latest["sma_50"]
        short_ma_prev  == df.previous["sma_20"]
        long_ma_prev   == df.previous["sma_50"]
    IN  /\ Scannable(df, {"close", "volume"})
        /\ df.rows >= 50 + 1
        /\ {"sma_20", "sma_50"} \subseteq df.columns
        /\ ~MACrossoverRaises(df, strategy_config)
        /\ Le(short_ma_prev, long_ma_prev)
        /\ Gt(short_ma_now, long_ma_now)
        /\ ~(/\ volume_confirm
             /\ "volume_ratio" \in df.columns
             /\ Lt(df.latest["volume_ratio"], Pts(1)))

MACrossoverEvent(ticker, df) ==
    [ ticker  |-> ticker,
      signal  |-> SigGoldenCross,
      price   |-> Fmt2(df.latest["close"]),
      details |-> [ short_ma     |-> Round2(df.latest["sma_20"]),
                    long_ma      |-> Round2(df.latest["sma_50"]),
                    volume_ratio |->
                        Fmt2(DictGet(df.latest, "volume_ratio", 0)) ] ]

\* The frames on which the try block of VolumeSurgeStrategy.scan raises
\* (lines 137-172): a compared column carried twice, and int(latest[
\* 'volume']) of a NaN or of a volume carried twice.
VolumeSurgeRaises(df, strategy_config) ==
    LET surge_multiplier == DictGet(strategy_config, "surge_multiplier", Pts(2))
        min_price_change == DictGet(strategy_config, "min_price_change", Pts(2))
    IN  /\ Scannable(df, {"close", "volume"})
        /\ "volume_ratio" \in df.columns
        /\ \/ "volume_ratio" \in Duplicated(df)
           \/ /\ Ge(df.latest["volume_ratio"], surge_multiplier)
              /\ "price_change_1d" \in df.columns
              /\ \/ "price_change_1d" \in Duplicated(df)
                 \/ /\ Ge(df.latest["price_change_1d"], min_price_change)
                    /\ \/ IsNa(df.latest["volume"])
                       \/ "volume" \in Duplicated(df)

\* VolumeSurgeStrategy.scan (lines 123-174); what raises in the try block
\* gives no event.
VolumeSurgeHit(df, strategy_config) ==
    LET surge_multiplier == DictGet(strategy_config, "surge_multiplier", Pts(2))
        min_price_change == DictGet(strategy_config, "min_price_change", Pts(2))
    IN  /\ Scannable(df, {"close", "volume"})
        /\ "volume_ratio" \in df.columns
        /\ ~VolumeSurgeRaises(df, strategy_config)
        /\ Ge(df.latest["volume_ratio"], surge_multiplier)
        /\ "price_change_1d" \in df.columns
        /\ Ge(df.latest["price_change_1d"], min_price_change)

VolumeSurgeEvent(ticker, df) ==
    [ ticker  |-> ticker,
      signal  |-> SigVolumeSurge,
      price   |-> Fmt2(df.latest["close"]),
      details |-> [ volume_ratio |-> Round2(df.latest["volume_ratio"]),
                    price_change |-> Round2(df.latest["price_change_1d"]),
                    volume       |-> df.latest["volume"] ] ]

\* The frames on which the try block of BreakoutStrategy.scan raises (lines
\* 212-246): a high, close or volume_ratio label carried twice, or a high
\* column of text compared with the close.
BreakoutRaises(df, strategy_config) ==
    LET volume_confirm == DictGet(strategy_config, "volume_confirm", TRUE)
    IN  /\ Scannable(df, {"close", "high", "volume"})
        /\ df.rows >= 20 + 1
        /\ \/ {"high", "close"} \cap Duplicated(df) # {}
           \/ "high" \in Textual(df)
           \/ /\ Gt(df.latest["close"], df.recent_high)
              /\ volume_confirm
              /\ "volume_ratio" \in df.columns \cap Duplicated(df)

\* BreakoutStrategy.scan (lines 194-248), lookback_period 20;
\* recent_high is df['high'].iloc[-21:-1].max().
BreakoutHit(df, strategy_config) ==
    LET volume_confirm   == DictGet(strategy_config, "volume_confirm", TRUE)
        min_volume_ratio == DictGet(strategy_config, "min_volume_ratio", 1200)
    IN  /\ Scannable(df, {"close", "high", "volume"})
        /\ df.rows >= 20 + 1
        /\ ~BreakoutRaises(df, strategy_config)
        /\ Gt(df.latest["close"], df.recent_high)
        /\ ~(/\ volume_confirm
             /\ "volume_ratio" \in df.columns
             /\ Lt(df.latest["volume_ratio"], min_volume_ratio))

BreakoutEvent(ticker, df) ==
    LET current_close == df.latest["close"]
        recent_high   == df.recent_high
    IN  [ ticker  |-> ticker,
          signal  |-> SigBreakout,
          price   |-> Round2(current_close),
          details |->
            [ recent_high  |-> Round2(recent_high),
              breakout_pct |->
                  Round2(((current_close - recent_high) * 100000) \div recent_high),
              volume_ratio |->
                  Fmt2(DictGet(df.latest, "volume_ratio", 0)) ] ]

\* The frames on which the try block of RSIStrategy.scan raises (lines
\* 283-327): an rsi label carried twice.
RSIRaises(df, strategy_config) ==
    /\ Scannable(df, {"close", "rsi"})
    /\ df.rows >= 2
    /\ "rsi" \in Duplicated(df)

\* RSIStrategy.scan (lines 268-329), thresholds 30 and 70.
RSISignalType(df, strategy_config) ==
    LET mode     == DictGet(strategy_config, "mode", "oversold")
        rsi_now  == df.latest["rsi"]
        rsi_prev == df.previous["rsi"]
    IN  IF ~Scannable(df, {"close", "rsi"}) \/ df.rows < 2
        THEN ""
        ELSE IF RSIRaises(df, strategy_config)
        THEN ""
        ELSE IF IsNa(rsi_now) \/ IsNa(rsi_prev)
        THEN ""
        ELSE IF mode = "oversold"
        THEN IF rsi_prev <= Pts(30) /\ rsi_now > Pts(30)
             THEN SigRsiOversold ELSE ""
        ELSE IF mode = "overbought"
        THEN IF rsi_prev >= Pts(70) /\ rsi_now < Pts(70)
             THEN SigRsiOverbought ELSE ""
        ELSE ""

RSIEvent(ticker, df, strategy_config) ==
    [ ticker  |-> ticker,
      signal  |-> RSISignalType(df, strategy_config),
      price   |-> Fmt2(df.latest["close"]),
      details |-> [ rsi      |-> Round2(df.latest["rsi"]),
                    rsi_prev |-> Round2(df.previous["rsi"]) ] ]

\* The scan loop of each detector: the tickers that meet its conditions, in
\* input order, each with one event.
MACrossoverScan(data, strategy_config) ==
    LET hits == SelectSeq(data, LAMBDA entry :
                                  MACrossoverHit(entry.df, strategy_config))
    IN  [ i \in 1..Len(hits) |-> MACrossoverEvent(hits[i].ticker, hits[i].df) ]

\* VolumeSurgeStrategy.scan with the try around the loop instead of inside
\* it: the scan ends at the first ticker that raises.
VolumeSurgeScanAbortOnError(data, strategy_config) ==
    LET failing == { i \in 1..Len(data) :
                       VolumeSurgeRaises(data[i].df, strategy_config) }
        scanned == IF failing = {} THEN data
                   ELSE SubSeq(data, 1,
                               (CHOOSE i \in failing : \A j \in failing : i <= j) - 1)
        hits == SelectSeq(scanned, LAMBDA entry :
                                     VolumeSurgeHit(entry.df, strategy_config))
    IN  [ i \in 1..Len(hits) |-> VolumeSurgeEvent(hits[i].ticker, hits[i].df) ]

VolumeSurgeScan(data, strategy_config) ==
    LET hits == SelectSeq(data, LAMBDA entry :
                                  VolumeSurgeHit(entry.df, strategy_config))
    IN  [ i \in 1..Len(hits) |-> VolumeSurgeEvent(hits[i].ticker, hits[i].df) ]

\* BreakoutStrategy.scan reporting a breakout once for the latest row and
\* once more for the row that set it up: two events for a ticker.
BreakoutScanTwice(data, strategy_config) ==
    LET hits == SelectSeq(data, LAMBDA entry :
                                  BreakoutHit(entry.df, strategy_config))
    IN  [ i \in 1..(2 * Len(hits)) |->
            BreakoutEvent(hits[(i + 1) \div 2].ticker, hits[(i + 1) \div 2].df) ]

BreakoutScan(data, strategy_config) ==
    LET hits == SelectSeq(data, LAMBDA entry :
                                  BreakoutHit(entry.df, strategy_config))
    IN  [ i \in 1..Len(hits) |-> BreakoutEvent(hits[i].ticker, hits[i].df) ]

RSIScan(data, strategy_config) ==
    LET hits == SelectSeq(data, LAMBDA entry :
                                  RSISignalType(entry.df, strategy_config) # "")
    IN  [ i \in 1..Len(hits) |->
            RSIEvent(hits[i].ticker, hits[i].df, strategy_config) ]

\* strategy.scan(stock_data) of a strategy object.
StrategyScan(strategy, data) ==
    CASE strategy.name = "MA_Crossover" -> MACrossoverScan(data, strategy.config)
      [] strategy.name = "Volume_Surge" -> VolumeSurgeScan(data, strategy.config)
      [] strategy.name = "Breakout"     -> BreakoutScan(data, strategy.config)
      [] strategy.name = "RSI"          -> RSIScan(data, strategy.config)

-----------------------------------------------------------------------------
(* The configuration and the stored files of a screening run, drawn from   *)
(* bounded sets.                                                           *)

\* The 'indicators' keys of _get_default_config (config_manager.py:227-239)
\* and a configuration that also names the keys add_all_indicators reads.
DefaultIndicators ==
    {"ma_periods", "ema_periods", "rsi_period", "macd", "bollinger_bands"}
FullIndicators ==
    DefaultIndicators \cup
        {"bollinger", "atr_period", "adx_period", "volume_ma_period"}

\* The 'strategies' section of _get_default_config (lines 212-226) and one
\* with every detector enabled.
DefaultStrategies ==
    [ ma_crossover |-> [enabled |-> TRUE],
      volume_surge |-> [enabled |-> TRUE, surge_multiplier |-> Pts(2)],
      pattern_recognition |-> [enabled |-> FALSE] ]
AllStrategies(mode) ==
    [ ma_crossover |-> [enabled |-> TRUE],
      volume_surge |-> [enabled |-> TRUE, surge_multiplier |-> Pts(2)],
      pattern_recognition |-> [enabled |-> TRUE],
      rsi |-> [enabled |-> TRUE, mode |-> mode] ]

\* The configurations: none has a 'screening' key, as the default has none.
Configs ==
    { [indicators |-> i, strategies |-> s] :
        i \in {DefaultIndicators, FullIndicators},
        s \in {DefaultStrategies, AllStrategies("oversold"),
               AllStrategies("overbought")} }

\* _initialize_strategies (main.py:117-146).
Enabled(strategies_config, key) ==
    DictGet(DictGet(strategies_config, key, EmptyDict), "enabled", FALSE)
StrategyIf(strategies_config, key, name) ==
    IF Enabled(strategies_config, key)
    THEN << [name |-> name, config |-> strategies_config[key]] >>
    ELSE << >>
InitializeStrategies(strategies_config) ==
    StrategyIf(strategies_config, "ma_crossover", "MA_Crossover") \o
    StrategyIf(strategies_config, "volume_surge", "Volume_Surge") \o
    StrategyIf(strategies_config, "pattern_recognition", "Breakout") \o
    StrategyIf(strategies_config, "rsi", "RSI")

\* A file of 120 rows in a steady uptrend that triggers no detector.
Quiet ==
    [ parses   |-> TRUE,
      rows     |-> 120,
      columns  |-> RawColumns,
      nan_count |-> [close |-> 0, volume |-> 0, high |-> 0, low |-> 0],
      latest   |-> [close |-> 50000, volume |-> 300],
      previous |-> [close |-> 49500, volume |-> 200],
      close_20 |-> 45000,
      volume_mean_20 |-> 200,
      close_mean_20  |-> 48000,
      high_20     |-> 51000,
      low_20      |-> 44000,
      recent_high |-> 51000,
      series |->
        [ latest |->
            [ sma_5 |-> 49500, sma_10 |-> 49000, sma_20 |-> 48000,
              sma_50 |-> 46000, rsi |-> 62000, adx |-> 30000,
              plus_di |-> 28000, minus_di |-> 15000, volume_ratio |-> 1500,
              price_change_1d |-> 1010, price_change_5d |-> 6000 ],
          previous |->
            [ sma_5 |-> 49200, sma_10 |-> 48800, sma_20 |-> 47800,
              sma_50 |-> 45900, rsi |-> 60000, adx |-> 29500,
              plus_di |-> 27500, minus_di |-> 15500, volume_ratio |-> 1000,
              price_change_1d |-> 500, price_change_5d |-> 5500 ],
          sma_20_tail |-> <<47000, 47250, 47500, 47800, 48000>>,
          sma_20_back |-> 46800 ] ]

\* The 20-day average crossed above the 50-day average on the last row.
Crossing ==
    [ Quiet EXCEPT
        !.series.latest.sma_5   = 48000,
        !.series.latest.sma_10  = 47000,
        !.series.latest.sma_20  = 46010,
        !.series.latest.sma_50  = 46000,
        !.series.previous.sma_20 = 45980,
        !.series.previous.sma_50 = 45990,
        !.series.sma_20_tail = <<45900, 45930, 45950, 45980, 46010>>,
        !.series.sma_20_back = 45880 ]

\* Twice the average volume on a 3.004% rise, above the 20-day high.
Surging ==
    [ Quiet EXCEPT
        !.latest.volume = 400,
        !.recent_high = 49800,
        !.series.latest.volume_ratio = 2000,
        !.series.latest.price_change_1d = 3004,
        !.series.latest.price_change_5d = 10000 ]

\* RSI back above 30, and the other way RSI back below 70, on the last row.
Rebounding ==
    [ Quiet EXCEPT !.series.previous.rsi = 30000, !.series.latest.rsi = 30450 ]
Cooling ==
    [ Quiet EXCEPT !.series.previous.rsi = 70000, !.series.latest.rsi = 69990 ]


\* Files that pass every filter with a dollar volume between the two
\* thresholds of the liquidity score.
Thin == [ Crossing EXCEPT !.volume_mean_20 = 10 ]

\* Files the data quality filter rejects: too short, empty, 13 NaN volumes
\* in 120 rows, no volume column.
Short == [ Surging EXCEPT !.rows = 60 ]
Empty == [ Quiet EXCEPT !.rows = 0 ]
Gappy == [ Surging EXCEPT !.nan_count.volume = 13 ]
NoVolume == [ Crossing EXCEPT !.columns = RawColumns \ {"volume"} ]

\* Files the liquidity filter rejects: a 4.50 dollar stock, and 20,000
\* shares a day at 48 dollars.
Cheap ==
    [ Surging EXCEPT
        !.latest.close = 4500, !.previous.close = 4370, !.close_20 = 4000,
        !.close_mean_20 = 4300, !.volume_mean_20 = 3000,
        !.high_20 = 4600, !.low_20 = 3900, !.recent_high = 4450,
        !.series.latest.sma_5 = 4450, !.series.latest.sma_10 = 4400,
        !.series.latest.sma_20 = 4300, !.series.latest.sma_50 = 4100,
        !.series.previous.sma_20 = 4280, !.series.previous.sma_50 = 4090,
        !.series.sma_20_tail = <<4200, 4225, 4250, 4280, 4300>>,
        !.series.sma_20_back = 4180 ]
Illiquid == [ Crossing EXCEPT !.volume_mean_20 = 2 ]

\* Files the trend filter rejects: lower than 20 rows ago, at the 50-day
\* average, a 20-day average back where it was 5 rows ago.
Falling == [ Crossing EXCEPT !.close_20 = 52000 ]
AtMA50 == [ Surging EXCEPT !.series.latest.sma_50 = 50000 ]
Flattening ==
    [ Surging EXCEPT
        !.series.previous.sma_20 = 48050,
        !.series.sma_20_tail = <<48000, 48100, 48150, 48050, 48000>>,
        !.series.sma_20_back = 47900 ]

\* A file pd.read_csv fails on: load_stock_data returns None.
Unreadable == [ Quiet EXCEPT !.parses = FALSE ]

\* A file whose high column has a non-numeric token, so that the column is
\* read as text.
Mistyped == [text |-> {"high"}] @@ Surging

Profiles ==
    { Quiet, Crossing, Surging, Rebounding, Cooling, Thin, Short, Empty,
      Gappy, NoVolume, Cheap, Illiquid, Falling, AtMA50, Flattening,
      Unreadable, Mistyped }

\* sorted() of the tickers (data_storage.py:215).
SortedTickers == <<"AAA", "BBB">>

-----------------------------------------------------------------------------
(* StockScreener.run_screening (main.py:216-307), one action per step *)

Init ==
    /\ IdleCaller
    /\ IdleSignals
    /\ IdleUnit
    /\ now = 0
    /\ weights = EngineWeights(EmptyDict)
    /\ output_count = EngineOutputCount(EmptyDict)
    /\ liquidity_scores = EmptyDict
    /\ trend_scores = EmptyDict
    /\ strategy_results = <<>>
    /\ pc = "start"
    /\ config \in Configs
    /\ stored \in [Tickers -> Profiles]
    /\ stock_data = <<>>
    /\ data_quality_rejected = EmptyDict
    /\ liquidity_rejected = EmptyDict
    /\ trend_rejected = EmptyDict
    /\ result = EmptyDict

\* list_available_stocks (data_storage.py:202-215).
AvailableStocks == SelectSeq(SortedTickers, LAMBDA t : t \in DOMAIN stored)

\* load_multiple_stocks (data_storage.py:125-145): a ticker whose file does
\* not load is left out.
LoadMultipleStocks(tickers) ==
    LET loaded == SelectSeq(tickers, LAMBDA t : stored[t].parses)
    IN  [ i \in 1..Len(loaded) |-> [ticker |-> loaded[i], df |-> stored[loaded[i]]] ]

\* Lines 222-225.
LoadData ==
    /\ pc = "start"
    /\ stock_data' = LoadMultipleStocks(AvailableStocks)
    /\ pc' = "loaded"
    /\ UNCHANGED <<engineVars, unitVars, inputVars, callerVars, now, signalVars, config,
                   stored, data_quality_rejected, liquidity_rejected,
                   trend_rejected, result>>

\* Lines 228-233.
AddIndicators ==
    /\ pc = "loaded"
    /\ stock_data' =
         [ i \in 1..Len(stock_data) |->
             [ stock_data[i] EXCEPT
                 !.df = AddAllIndicators(@, config.indicators) ] ]
    /\ pc' = "indicators"
    /\ UNCHANGED <<engineVars, unitVars, inputVars, callerVars, now, signalVars, config,
                   stored, data_quality_rejected, liquidity_rejected,
                   trend_rejected, result>>

\* Lines 239-240.
FilterDataQuality ==
    /\ pc = "indicators"
    /\ LET filtered == DataQualityFilter(stock_data)
       IN  /\ stock_data' = filtered.passed
           /\ data_quality_rejected' = filtered.rejected
    /\ pc' = "data_quality"
    /\ UNCHANGED <<engineVars, unitVars, inputVars, callerVars, now, signalVars, config,
                   stored, liquidity_rejected, trend_rejected, result>>

\* Lines 243-244.
FilterLiquidity ==
    /\ pc = "data_quality"
    /\ LET filtered == LiquidityFilter(stock_data)
       IN  /\ stock_data' = filtered.passed
           /\ liquidity_rejected' = filtered.rejected
    /\ pc' = "liquidity"
    /\ UNCHANGED <<engineVars, unitVars, inputVars, callerVars, now, signalVars, config,
                   stored, data_quality_rejected, trend_rejected, result>>

\* Lines 247-248.
FilterTrend ==
    /\ pc = "liquidity"
    /\ LET filtered == TrendFilter(stock_data)
       IN  /\ stock_data' = filtered.passed
           /\ trend_rejected' = filtered.rejected
    /\ pc' = "trend"
    /\ UNCHANGED <<engineVars, unitVars, inputVars, callerVars, now, signalVars, config,
                   stored, data_quality_rejected, liquidity_rejected, result>>


\* Lines 250-260: nothing survived the filters.
ReturnEmpty ==
    /\ pc = "trend"
    /\ Len(stock_data) = 0
    /\ result' =
         [ final_results    |-> <<>>,
           filter_stats     |->
             [ data_quality_rejected |-> Cardinality(DOMAIN data_quality_rejected),
               liquidity_rejected    |-> Cardinality(DOMAIN liquidity_rejected),
               trend_rejected        |-> Cardinality(DOMAIN trend_rejected) ],
           strategy_results |-> <<>> ]
    /\ pc' = "done"
    /\ UNCHANGED <<engineVars, unitVars, inputVars, callerVars, now, signalVars, config,
                   stored, stock_data, data_quality_rejected,
                   liquidity_rejected, trend_rejected>>

\* The survivors on which trend_scorer.score raises.
ScoreFailures(data) ==
    { i \in 1..Len(data) :
        "raised" \in DOMAIN Score(MAADXScorer(EmptyDict), data[i].df) }

\* Lines 264-266.  The loop has no try: the first survivor on which score
\* raises ends run_screening with the exception, the survivors before it
\* scored.
ScoreTrends ==
    /\ pc = "trend"
    /\ Len(stock_data) # 0
    /\ LET failures == ScoreFailures(stock_data)
           scored ==
               IF failures = {} THEN stock_data
               ELSE SubSeq(stock_data, 1,
                           (CHOOSE i \in failures : \A j \in failures : i <= j) - 1)
       IN  /\ trend_scores' =
                [ t \in Keys(scored) |->
                    Score(MAADXScorer(EmptyDict), ValueOf(scored, t)) ]
           /\ pc' = IF failures = {} THEN "trend_scored" ELSE "score_raised"
    /\ UNCHANGED <<engineVars, unitVars, liquidity_scores, strategy_results, callerVars,
                   now, signalVars, config, stored, stock_data,
                   data_quality_rejected, liquidity_rejected, trend_rejected,
                   result>>

\* Lines 270-273.
ScoreLiquidity ==
    /\ pc = "trend_scored"
    /\ liquidity_scores' =
         [ t \in Keys(stock_data) |->
             CalculateLiquidityScore(ValueOf(stock_data, t)) ]
    /\ pc' = "liquidity_scored"
    /\ UNCHANGED <<engineVars, unitVars, trend_scores, strategy_results, callerVars,
                   now, signalVars, config, stored, stock_data,
                   data_quality_rejected, liquidity_rejected, trend_rejected,
                   result>>

\* Lines 277-282: every strategy scans the survivors, in list order.
RunStrategies ==
    /\ pc = "liquidity_scored"
    /\ LET strategies == InitializeStrategies(config.strategies)
       IN  strategy_results' =
             [ i \in 1..Len(strategies) |->
                 [ name    |-> strategies[i].name,
                   results |-> StrategyScan(strategies[i], stock_data) ] ]
    /\ pc' = "scanned"
    /\ UNCHANGED <<engineVars, unitVars, liquidity_scores, trend_scores, callerVars,
                   now, signalVars, config, stored, stock_data,
                   data_quality_rejected, liquidity_rejected, trend_rejected,
                   result>>

\* Lines 286-307.
ScoreAndReturn ==
    /\ pc = "scanned"
    /\ result' =
         [ final_results    |->
               ScoreAll(liquidity_scores, trend_scores, strategy_results,
                        weights, output_count, now),
           filter_stats     |->
             [ total_input        |-> Len(AvailableStocks),
               after_data_quality |->
                   Len(stock_data) + Cardinality(DOMAIN liquidity_rejected) +
                   Cardinality(DOMAIN trend_rejected),
               after_liquidity    |->
                   Len(stock_data) + Cardinality(DOMAIN trend_rejected),
               after_trend        |-> Len(stock_data),
               data_quality_rejected |-> Cardinality(DOMAIN data_quality_rejected),
               liquidity_rejected    |-> Cardinality(DOMAIN liquidity_rejected),
               trend_rejected        |-> Cardinality(DOMAIN trend_rejected) ],
           strategy_results |-> strategy_results ]
    /\ pc' = "done"
    /\ UNCHANGED <<engineVars, unitVars, inputVars, callerVars, now, signalVars, config,
                   stored, stock_data, data_quality_rejected,
                   liquidity_rejected, trend_rejected>>

\* The filter_stats keys _print_summary_v2 reads (lines 396-399).
SummaryKeys ==
    {"total_input", "after_data_quality", "after_liquidity", "after_trend"}

\* run_once after run_screening has returned (lines 319-346): the reports
\* are written, or skipped for an empty list, and _print_summary_v2 logs
\* the filter statistics; a key it does not find raises KeyError, which
\* nothing in run_once catches.
PrintSummaryAndReturn ==
    /\ pc = "done"
    /\ pc' = IF SummaryKeys \subseteq DOMAIN result.filter_stats
             THEN "returned"
             ELSE "raised"
    /\ UNCHANGED <<engineVars, unitVars, inputVars, callerVars, now, signalVars, config,
                   stored, stock_data, data_quality_rejected,
                   liquidity_rejected, trend_rejected, result>>

Next ==
    \/ LoadData
    \/ AddIndicators
    \/ FilterDataQuality
    \/ FilterLiquidity
    \/ FilterTrend
    \/ ReturnEmpty
    \/ ScoreTrends
    \/ ScoreLiquidity
    \/ RunStrategies
    \/ ScoreAndReturn
    \/ PrintSummaryAndReturn

Spec == Init /\ [][Next]_vars


-----------------------------------------------------------------------------
(* Properties of run_screening *)

\* The frame run_screening holds for a stored ticker once the indicators
\* are added, and the tickers whose file loaded.
FrameOf(t) == AddAllIndicators(stored[t], config.indicators)
Loaded == { t \in DOMAIN stored : stored[t].parses }

\* The steps at which each filter has run.
AfterDataQuality ==
    {"data_quality", "liquidity", "trend", "trend_scored", "liquidity_scored",
     "scanned", "done", "returned", "raised", "score_raised"}
AfterLiquidity == AfterDataQuality \ {"data_quality"}
AfterTrend == AfterLiquidity \ {"liquidity"}

\* Everything rejected so far.
RejectedSoFar ==
    DOMAIN data_quality_rejected \cup DOMAIN liquidity_rejected \cup
    DOMAIN trend_rejected

\* C4: the filters run in the order data quality, liquidity, trend, each on
\* what the one before it passed: the data quality filter rejects exactly
\* the loaded tickers that fail its test, the liquidity filter exactly those
\* of the rest that fail its test, the trend filter exactly those of the
\* rest that fail its test, and no filter has rejected anything before the
\* one ahead of it has run.  No rejected ticker gets a trend score, a
\* liquidity score or a signal event, and every ticker of final_results
\* loaded, was rejected by no filter and passes the test of all three.
C4_HardFiltersInOrder ==
    LET dq   == DOMAIN data_quality_rejected
        liq  == DOMAIN liquidity_rejected
        tr   == DOMAIN trend_rejected
    IN  /\ IF pc \in AfterDataQuality
           THEN dq = { t \in Loaded : ~DataQualityCheck(FrameOf(t)).passed }
           ELSE dq = {} /\ liq = {} /\ tr = {}
        /\ IF pc \in AfterLiquidity
           THEN liq = { t \in Loaded \ dq : ~LiquidityCheck(FrameOf(t)).passed }
           ELSE liq = {} /\ tr = {}
        /\ IF pc \in AfterTrend
           THEN /\ tr = { t \in Loaded \ (dq \cup liq) :
                            ~TrendCheck(FrameOf(t)).passed }
                /\ Keys(stock_data) = Loaded \ (dq \cup liq \cup tr)
           ELSE tr = {}
        /\ DOMAIN trend_scores \cap RejectedSoFar = {}
        /\ DOMAIN liquidity_scores \cap RejectedSoFar = {}
        /\ TickersWithSignal(strategy_results) \cap RejectedSoFar = {}
        /\ pc = "done" =>
             \A i \in 1..Len(result.final_results) :
                LET t == result.final_results[i].ticker
                IN  /\ t \in Loaded
                    /\ t \notin RejectedSoFar
                    /\ DataQualityCheck(FrameOf(t)).passed
                    /\ LiquidityCheck(FrameOf(t)).passed
                    /\ TrendCheck(FrameOf(t)).passed

\* A finished run that ranked AAA while the liquidity filter rejected BBB, a
\* 4.50 dollar stock that passes the other two filters and would have
\* triggered the volume surge detector.
C4_Witness ==
    /\ pc = "done"
    /\ Len(result.final_results) = 1
    /\ result.final_results[1].ticker = "AAA"
    /\ "BBB" \in DOMAIN liquidity_rejected
    /\ liquidity_rejected["BBB"].text = "price_too_low"
    /\ DataQualityCheck(FrameOf("BBB")).passed
    /\ TrendCheck(FrameOf("BBB")).passed
    /\ VolumeSurgeHit(FrameOf("BBB"), config.strategies["volume_surge"])

-----------------------------------------------------------------------------
(* The trend scorer called on its own: MAADXScorer({}).score(df) for a df  *)
(* drawn from a bounded set of frames.                                     *)

\* df with the columns cols replaced by those of row: a column outside
\* DOMAIN row is absent from the frame.
WithLatest(df, cols, row) ==
    [ df EXCEPT
        !.columns = (@ \ cols) \cup DOMAIN row,
        !.latest  = Restrict(@, DOMAIN @ \ cols) @@ row ]

\* All rows over a subset of the columns cols with values in vals.
RowsOver(cols, vals) == UNION { [S -> vals] : S \in SUBSET cols }

\* A frame on which every sub-score is 100: close > sma_5 > sma_10 > sma_20
\* > sma_50, ADX 30 with +DI above -DI, a 12% 5-row return, and a close at
\* 0.6 of the 20-row range.
Ideal ==
    LET df == AddAllIndicators(Quiet, FullIndicators)
    IN  [ df EXCEPT
            !.latest = [ close |-> 48200, volume |-> 300,
                         sma_5 |-> 48000, sma_10 |-> 47000, sma_20 |-> 46000,
                         sma_50 |-> 45000, rsi |-> 62000, adx |-> 30000,
                         plus_di |-> 28000, minus_di |-> 15000,
                         volume_ratio |-> 1500, price_change_1d |-> 1010,
                         price_change_5d |-> 12000 ] ]

MaColumns == {"sma_5", "sma_10", "sma_20", "sma_50"}
MaValues == {NaN, 45000, 46000, 47000, 48000, 49000}
MaFrames ==
    { WithLatest(Ideal, MaColumns, row) : row \in RowsOver(MaColumns, MaValues) }

AdxValues ==
    {NaN, 15000, 20000, 24990, 25000, 40000, 40010, 50000, 50010}
DiValues == {NaN, 15000, 28000}
AdxFrames ==
    { WithLatest(Ideal, {"adx", "plus_di", "minus_di"}, adx @@ plus @@ minus) :
        adx   \in RowsOver({"adx"}, AdxValues),
        plus  \in RowsOver({"plus_di"}, DiValues),
        minus \in RowsOver({"minus_di"}, DiValues) }

MomentumValues ==
    {NaN, -10, 0, 1990, 2000, 4990, 5000, 9990, 10000, 12000}
MomentumFrames ==
    { WithLatest(Ideal, {"price_change_5d"}, row) :
        row \in RowsOver({"price_change_5d"}, MomentumValues) }

\* Closes at 1/7, 0.3, 0.5, 0.75, 0.85 and 6/7 of a range of 44 to 51
\* dollars, an unknown close, a flat range and a frame of ten rows.
CloseValues == {NaN, 45000, 46100, 47500, 49250, 49950, 50000}
PositionFrames ==
    { [ Ideal EXCEPT !.latest.close = c ] : c \in CloseValues } \cup
    { [ Ideal EXCEPT !.high_20 = 48200, !.low_20 = 48200 ],
      [ Ideal EXCEPT !.rows = 10 ] }

\* Frames that differ from Ideal in several sub-scores at once: three, four
\* or no moving-average conditions met, a strong, weak or falling trend, a
\* 12%, 1.99% or negative 5-row return, and a close at 0.6 or 0.37 of the
\* 20-row range.
CombinedFrames ==
    { [ WithLatest(Ideal, {"sma_5", "sma_50", "adx", "minus_di", "price_change_5d"},
                   [ sma_5 |-> ma[1], sma_50 |-> ma[2], adx |-> trend[1],
                     minus_di |-> trend[2], price_change_5d |-> momentum ])
          EXCEPT !.high_20 = range[1], !.low_20 = range[2] ] :
        ma       \in { <<48000, 45000>>, <<48000, 47000>>, <<49000, 47000>> },
        trend    \in { <<30000, 15000>>, <<15000, 15000>>, <<30000, 28000>> },
        momentum \in { 12000, 1990, -10 },
        range    \in { <<Ideal.high_20, Ideal.low_20>>, <<52000, 46000>> } }

ScorerFrames ==
    MaFrames \cup AdxFrames \cup MomentumFrames \cup PositionFrames \cup
    CombinedFrames \cup { None, [ Ideal EXCEPT !.rows = 0 ] }

\* Weights a configuration file can give: thirds and sixths written to three
\* decimals, and a mapping that lacks a key.
ThirdsWeights ==
    [ma_alignment |-> 333, adx_strength |-> 333,
     price_momentum |-> 167, price_position |-> 167]

PartialWeights ==
    [ma_alignment |-> 400, adx_strength |-> 350, price_momentum |-> 150]

ScorerConfigs ==
    { EmptyDict, [weights |-> trend_weights], [weights |-> ThirdsWeights],
      [weights |-> PartialWeights] }

\* The other groups while a component is called on its own.
IdleEngine ==
    /\ weights = DefaultWeights
    /\ output_count = DefaultOutputCount
    /\ liquidity_scores = EmptyDict
    /\ trend_scores = EmptyDict
    /\ strategy_results = <<>>
    /\ now = 0

InitScorer ==
    /\ IdleEngine
    /\ IdleCaller
    /\ IdleSignals
    /\ IdleScreening
    /\ upc = "ready"
    /\ component = EmptyDict
    /\ argument \in ScorerFrames
    /\ returned = EmptyDict

\* MAADXScorer(trend_config): no weight is looked up (lines 32-38).
ConstructScorer ==
    /\ upc = "ready"
    /\ \E trend_config \in ScorerConfigs :
           component' = MAADXScorer(trend_config)
    /\ upc' = "constructed"
    /\ UNCHANGED <<engineVars, inputVars, callerVars, now, signalVars,
                   screenVars, argument, returned>>

\* trend_scorer.score(df).
CallScore ==
    /\ upc = "constructed"
    /\ returned' = Score(component, argument)
    /\ upc' = "returned"
    /\ UNCHANGED <<engineVars, inputVars, callerVars, now, signalVars,
                   screenVars, component, argument>>

NextScorer == ConstructScorer \/ CallScore

SpecScorer == InitScorer /\ [][NextScorer]_vars


-----------------------------------------------------------------------------
(* Properties of the trend scorer *)

-----------------------------------------------------------------------------
(* The three hard filters called on their own with a dict of one or two   *)
(* tickers: frames with their indicators, None, a frame without its close  *)
(* column, and frames that carry a column label twice.                     *)

NoClose == [ Crossing EXCEPT !.columns = RawColumns \ {"close"} ]

TwiceColumns == {"close", "volume", "sma_50", "sma_20"}
Twice(col) ==
    [duplicated |-> {col}] @@ AddAllIndicators(Surging, FullIndicators)

\* A 20-day average that fell on the row before the last five and has
\* risen since, without reaching the value it had five rows before the last.
Recovering ==
    [ Surging EXCEPT
        !.series.previous.sma_20 = 47998,
        !.series.sma_20_tail = <<47990, 47992, 47995, 47998, 48000>>,
        !.series.sma_20_back = 48010 ]

\* 250 rows without a volume on the last 20: 8% of the column is NaN and
\* the mean of the last 20 volumes is NaN.
Untraded ==
    [ Surging EXCEPT
        !.rows = 250,
        !.nan_count.volume = 20,
        !.latest.volume = NaN,
        !.previous.volume = NaN,
        !.volume_mean_20 = NaN,
        !.series.latest.volume_ratio = NaN,
        !.series.previous.volume_ratio = NaN ]

FilterFrames ==
    { AddAllIndicators(p, FullIndicators) : p \in Profiles \ {Unreadable} } \cup
    { AddAllIndicators(Recovering, FullIndicators),
      AddAllIndicators(Untraded, FullIndicators) } \cup
    { Twice(col) : col \in TwiceColumns } \cup
    { None, AddAllIndicators(NoClose, FullIndicators) }

FilterInputs ==
    { <<>> } \cup
    { << [ticker |-> "AAA", df |-> f] >> : f \in FilterFrames } \cup
    { << [ticker |-> t[1], df |-> f], [ticker |-> t[2], df |-> g] >> :
        t \in { <<"AAA", "BBB">>, <<"BBB", "AAA">> },
        f \in FilterFrames, g \in FilterFrames }

InitFilters ==
    /\ IdleEngine
    /\ IdleCaller
    /\ IdleSignals
    /\ IdleScreening
    /\ upc = "ready"
    /\ component = EmptyDict
    /\ argument \in FilterInputs
    /\ returned = EmptyDict

\* DataQualityFilter({}).filter(data).
CallDataQualityFilter ==
    /\ upc = "ready"
    /\ component' = [name |-> "DataQualityFilter"]
    /\ returned' = DataQualityFilter(argument)
    /\ upc' = "returned"
    /\ UNCHANGED <<engineVars, inputVars, callerVars, now, signalVars,
                   screenVars, argument>>

\* LiquidityFilter({}).filter(data).
CallLiquidityFilter ==
    /\ upc = "ready"
    /\ component' = [name |-> "LiquidityFilter"]
    /\ returned' = LiquidityFilter(argument)
    /\ upc' = "returned"
    /\ UNCHANGED <<engineVars, inputVars, callerVars, now, signalVars,
                   screenVars, argument>>

\* The loop of main.py:270-273 over what the liquidity filter passed:
\* calculate_liquidity_score(df, {}) with the filter's configuration.
CallLiquidityScore ==
    /\ upc = "returned"
    /\ "name" \in DOMAIN component
    /\ component.name = "LiquidityFilter"
    /\ returned' =
         [ passed   |-> returned.passed,
           rejected |-> returned.rejected,
           liquidity_scores |->
             [ t \in Keys(returned.passed) |->
                 CalculateLiquidityScore(ValueOf(returned.passed, t)) ] ]
    /\ upc' = "scored"
    /\ UNCHANGED <<engineVars, inputVars, callerVars, now, signalVars,
                   screenVars, component, argument>>

\* TrendFilter({}).filter(data).
CallTrendFilter ==
    /\ upc = "ready"
    /\ component' = [name |-> "TrendFilter"]
    /\ returned' = TrendFilter(argument)
    /\ upc' = "returned"
    /\ UNCHANGED <<engineVars, inputVars, callerVars, now, signalVars,
                   screenVars, argument>>

NextFilters ==
    \/ CallDataQualityFilter
    \/ CallLiquidityFilter
    \/ CallTrendFilter
    \/ CallLiquidityScore

SpecFilters == InitFilters /\ [][NextFilters]_vars

-----------------------------------------------------------------------------
(* WeeklyTrendFilter (src/src/filters/weekly_trend_filter.py).  The filter *)
(* object is [enabled, data_storage]; data_storage is None or the weekly   *)
(* frame stored for each ticker, None for a ticker without a weekly file.  *)
(* A weekly frame is its length, its columns and the last five values of   *)
(* the 20-week rolling mean of its close.                                  *)

\* WeeklyTrendFilter.__init__ defaults (lines 45-50): 20 weeks, 4 weeks,
\* 0.005 in thousandths.
weekly_ma_period == 20
slope_lookback_weeks == 4
sideways_threshold == 5

\* The trend of slope = (ma_now - ma_before) / ma_before if ma_before != 0
\* else 0 against the threshold (lines 99-109, 127-134), by cross-
\* multiplication.
SlopeTrend(ma_now, ma_before, threshold) ==
    LET change == (ma_now - ma_before) * 1000
    IN  IF ma_before = 0 THEN "sideways"
        ELSE IF ma_before > 0
        THEN IF change > threshold * ma_before THEN "up"
             ELSE IF change < -threshold * ma_before THEN "down"
             ELSE "sideways"
        ELSE IF change < threshold * ma_before THEN "up"
             ELSE IF change > -threshold * ma_before THEN "down"
             ELSE "sideways"

\* _load_weekly_data (lines 56-73): None without a data_storage, for a
\* ticker without a readable weekly file and for an empty file.
LoadWeeklyData(self, ticker) ==
    IF self.data_storage = None THEN None
    ELSE LET weekly_df == self.data_storage[ticker]
         IN  IF ~IsNone(weekly_df) /\ weekly_df.rows # 0
             THEN weekly_df
             ELSE None

\* _calculate_weekly_ma_slope (lines 75-110): the trend, or KeyError for a
\* frame without a close column.  A rolling mean that is NaN everywhere is
\* NaN in its last five values, and both give 'unknown'.
CalculateWeeklyMaSlope(weekly_df) ==
    LET recent_ma == weekly_df.weekly_ma_tail
    IN  IF IsNone(weekly_df)
           \/ weekly_df.rows < weekly_ma_period + slope_lookback_weeks
        THEN [trend |-> "unknown"]
        ELSE IF "close" \notin weekly_df.columns
        THEN KeyError("close")
        ELSE IF \E i \in 1..(slope_lookback_weeks + 1) : IsNa(recent_ma[i])
        THEN [trend |-> "unknown"]
        ELSE [trend |-> SlopeTrend(recent_ma[slope_lookback_weeks + 1],
                                   recent_ma[1], sideways_threshold)]

\* _get_daily_trend (lines 112-134).
GetDailyTrend(daily_df) ==
    IF IsNone(daily_df) \/ daily_df.rows < 25
    THEN "unknown"
    ELSE IF "sma_20" \notin daily_df.columns
    THEN "unknown"
    ELSE LET recent_ma20 == daily_df.series.sma_20_tail
         IN  IF \E i \in 1..5 : IsNa(recent_ma20[i])
             THEN "unknown"
             ELSE SlopeTrend(recent_ma20[5], recent_ma20[1], 5)

\* _check_alignment that also rejects a ticker whose weekly trend is
\* unknown.
CheckAlignmentStrict(daily_trend, weekly_trend) ==
    IF weekly_trend = "unknown"
    THEN [is_aligned |-> FALSE, rejection_reason |-> "weekly_unknown"]
    ELSE IF daily_trend = "unknown"
    THEN [is_aligned |-> TRUE, rejection_reason |-> ""]
    ELSE IF daily_trend = "up" /\ weekly_trend = "down"
    THEN [is_aligned |-> FALSE, rejection_reason |-> "conflict_daily_up_weekly_down"]
    ELSE IF daily_trend = "down" /\ weekly_trend = "up"
    THEN [is_aligned |-> FALSE, rejection_reason |-> "conflict_daily_down_weekly_up"]
    ELSE [is_aligned |-> TRUE, rejection_reason |-> ""]

\* _check_alignment (lines 136-160); "" stands for a rejection_reason of
\* None.
CheckAlignment(daily_trend, weekly_trend) ==
    IF weekly_trend = "unknown"
    THEN [is_aligned |-> TRUE, rejection_reason |-> ""]
    ELSE IF daily_trend = "unknown"
    THEN [is_aligned |-> TRUE, rejection_reason |-> ""]
    ELSE IF daily_trend = "up" /\ weekly_trend = "down"
    THEN [is_aligned |-> FALSE, rejection_reason |-> "conflict_daily_up_weekly_down"]
    ELSE IF daily_trend = "down" /\ weekly_trend = "up"
    THEN [is_aligned |-> FALSE, rejection_reason |-> "conflict_daily_down_weekly_up"]
    ELSE [is_aligned |-> TRUE, rejection_reason |-> ""]

\* analyze_stock (lines 162-193): the state, or the exception it raises.
AnalyzeStock(self, ticker, daily_df) ==
    LET daily_trend == GetDailyTrend(daily_df)
        weekly_df   == LoadWeeklyData(self, ticker)
        weekly      == CalculateWeeklyMaSlope(weekly_df)
        checked     == CheckAlignment(daily_trend, weekly.trend)
    IN  IF IsNone(weekly_df)
        THEN [ daily_trend |-> daily_trend, weekly_trend |-> "unknown",
               is_aligned |-> TRUE, rejection_reason |-> "" ]
        ELSE IF "raised" \in DOMAIN weekly THEN weekly
        ELSE [ daily_trend |-> daily_trend, weekly_trend |-> weekly.trend,
               is_aligned |-> checked.is_aligned,
               rejection_reason |-> checked.rejection_reason ]

\* The debug line of a rejection (lines 229-232).  Its f-string formats
\* weekly_ma20_slope with the format spec ".4f if state.weekly_ma20_slope
\* else 'N/A'", which no float accepts: ValueError for every state.
LogConflict(state) ==
    [raised |-> "ValueError", text |-> "Invalid format specifier"]

\* What the loop body of filter (lines 215-237) does with one ticker: the
\* ticker goes to passed when it is aligned and when anything in the try
\* block raises, and to rejected when it is not aligned, before the debug
\* line is reached.
InPassed(self, ticker, daily_df) ==
    LET state == AnalyzeStock(self, ticker, daily_df)
    IN  IF "raised" \in DOMAIN state THEN TRUE
        ELSE IF state.is_aligned THEN TRUE
        ELSE "raised" \in DOMAIN LogConflict(state)

InRejected(self, ticker, daily_df) ==
    LET state == AnalyzeStock(self, ticker, daily_df)
    IN  "raised" \notin DOMAIN state /\ ~state.is_aligned

\* state.rejection_reason or the default text (line 227).
RejectionReason(state) ==
    IF state.rejection_reason # "" THEN state.rejection_reason
    ELSE "not_aligned"

\* WeeklyTrendFilter.filter (lines 195-247).
WeeklyTrendFilter(self, data) ==
    IF ~self.enabled THEN [passed |-> data, rejected |-> EmptyDict]
    ELSE LET out == { t \in Keys(data) : InRejected(self, t, ValueOf(data, t)) }
         IN  [ passed   |->
                 SelectSeq(data, LAMBDA entry : InPassed(self, entry.ticker, entry.df)),
               rejected |->
                 [ t \in out |->
                     RejectionReason(AnalyzeStock(self, t, ValueOf(data, t))) ] ]

\* Daily frames whose 20-day average rose 2.1%, fell 2.1%, rose 0.49%, and
\* frames without a trend: 20 rows, no sma_20 column, a NaN in the tail.
DailyUp == AddAllIndicators(Quiet, FullIndicators)
DailyDown ==
    [ DailyUp EXCEPT !.series.sma_20_tail = <<48000, 47800, 47500, 47250, 47000>>,
                     !.series.sma_20_back = 48200 ]
DailySideways ==
    [ DailyUp EXCEPT !.series.sma_20_tail = <<47000, 47050, 47100, 47200, 47230>>,
                     !.series.sma_20_back = 46990 ]
DailyShort == [ DailyUp EXCEPT !.rows = 20 ]
DailyNoMA == [ DailyUp EXCEPT !.columns = @ \ {"sma_20"} ]
DailyGap ==
    [ DailyUp EXCEPT !.series.sma_20_tail = <<NaN, 47250, 47500, 47800, 48000>>,
                     !.series.sma_20_back = NaN ]
DailyFrames ==
    { DailyUp, DailyDown, DailySideways, DailyShort, DailyNoMA, DailyGap, None }

\* Weekly frames of 60 weeks whose 20-week average rose 3%, fell 3%, fell
\* 0.49%, and frames without a trend: 23 weeks, a NaN in the tail, no rows;
\* a frame without a close column.
WeeklyUp ==
    [ rows |-> 60, columns |-> RawColumns,
      weekly_ma_tail |-> <<45000, 45400, 45800, 46100, 46350>> ]
WeeklyDown ==
    [ WeeklyUp EXCEPT !.weekly_ma_tail = <<46350, 46100, 45800, 45400, 45000>> ]
WeeklySideways ==
    [ WeeklyUp EXCEPT !.weekly_ma_tail = <<46000, 45950, 45900, 45800, 45775>> ]
WeeklyShort == [ WeeklyUp EXCEPT !.rows = 23 ]
WeeklyGap ==
    [ WeeklyUp EXCEPT !.weekly_ma_tail = <<NaN, 45400, 45800, 46100, 46350>> ]
WeeklyEmpty == [ WeeklyUp EXCEPT !.rows = 0 ]
WeeklyNoClose == [ WeeklyDown EXCEPT !.columns = RawColumns \ {"close"} ]
WeeklyFrames ==
    { WeeklyUp, WeeklyDown, WeeklySideways, WeeklyShort, WeeklyGap,
      WeeklyEmpty, WeeklyNoClose, None }

WeeklyInputs ==
    { <<>> } \cup
    { << [ticker |-> "AAA", df |-> f] >> : f \in DailyFrames } \cup
    { << [ticker |-> t[1], df |-> f], [ticker |-> t[2], df |-> g] >> :
        t \in { <<"AAA", "BBB">>, <<"BBB", "AAA">> },
        f \in DailyFrames, g \in DailyFrames }

InitWeekly ==
    /\ IdleEngine
    /\ IdleCaller
    /\ IdleSignals
    /\ IdleScreening
    /\ upc = "ready"
    /\ component = EmptyDict
    /\ argument \in WeeklyInputs
    /\ returned = EmptyDict

\* WeeklyTrendFilter(config, data_storage) with or without 'enabled': False
\* and a data_storage.
ConstructWeekly ==
    /\ upc = "ready"
    /\ \E enabled \in BOOLEAN,
          data_storage \in {None} \cup [{"AAA", "BBB"} -> WeeklyFrames] :
           component' = [enabled |-> enabled, data_storage |-> data_storage]
    /\ upc' = "constructed"
    /\ UNCHANGED <<engineVars, inputVars, callerVars, now, signalVars,
                   screenVars, argument, returned>>

\* weekly_filter.filter(data).
CallWeeklyFilter ==
    /\ upc = "constructed"
    /\ returned' = WeeklyTrendFilter(component, argument)
    /\ upc' = "returned"
    /\ UNCHANGED <<engineVars, inputVars, callerVars, now, signalVars,
                   screenVars, component, argument>>

NextWeekly == ConstructWeekly \/ CallWeeklyFilter

SpecWeekly == InitWeekly /\ [][NextWeekly]_vars

-----------------------------------------------------------------------------
(* The strategies of a screener scanning a dict of one or two tickers, as  *)
(* the loop of run_screening does (main.py:277-282): frames that trigger   *)
(* each detector, frames on which a detector raises, a crossing on low,    *)
(* unknown and uncomputed volume ratios, None and an empty frame.          *)

WithIndicators(profile) == AddAllIndicators(profile, FullIndicators)
CarriedTwice(df, col) == [duplicated |-> {col}] @@ df

DetectorFrames ==
    { WithIndicators(p) : p \in {Quiet, Crossing, Surging, Rebounding, Cooling, Empty} } \cup
    { None,
      AddAllIndicators(Crossing, DefaultIndicators),
      [ WithIndicators(Crossing) EXCEPT !.latest.volume_ratio = 990 ],
      [ WithIndicators(Crossing) EXCEPT !.latest.volume_ratio = NaN ],
      [ WithIndicators(Surging) EXCEPT !.latest.volume = NaN ],
      CarriedTwice(WithIndicators(Crossing), "sma_20"),
      CarriedTwice(WithIndicators(Surging), "high"),
      CarriedTwice(WithIndicators(Surging), "volume_ratio"),
      CarriedTwice(WithIndicators(Rebounding), "rsi") }

DetectorInputs ==
    { <<>> } \cup
    { << [ticker |-> "AAA", df |-> f] >> : f \in DetectorFrames } \cup
    { << [ticker |-> t[1], df |-> f], [ticker |-> t[2], df |-> g] >> :
        t \in { <<"AAA", "BBB">>, <<"BBB", "AAA">> },
        f \in DetectorFrames, g \in DetectorFrames }

\* 'strategies' sections: the default one, every detector enabled, and
\* every detector enabled without volume confirmation.
Unconfirmed ==
    [ AllStrategies("oversold") EXCEPT
        !.ma_crossover = [enabled |-> TRUE, volume_confirm |-> FALSE],
        !.pattern_recognition = [enabled |-> TRUE, volume_confirm |-> FALSE] ]
StrategyConfigs ==
    { DefaultStrategies, AllStrategies("oversold"), AllStrategies("overbought"),
      Unconfirmed }

InitDetectors ==
    /\ IdleEngine
    /\ IdleCaller
    /\ IdleSignals
    /\ IdleScreening
    /\ upc = "ready"
    /\ component = EmptyDict
    /\ argument \in DetectorInputs
    /\ returned = EmptyDict

\* _initialize_strategies (main.py:117-146).
ConstructStrategies ==
    /\ upc = "ready"
    /\ \E strategies_config \in StrategyConfigs :
           component' = [strategies |-> InitializeStrategies(strategies_config)]
    /\ upc' = "constructed"
    /\ UNCHANGED <<engineVars, inputVars, callerVars, now, signalVars,
                   screenVars, argument, returned>>

\* The loop over self.strategies (main.py:277-282).
ScanEveryStrategy ==
    /\ upc = "constructed"
    /\ returned' =
         [ i \in 1..Len(component.strategies) |->
             [ name    |-> component.strategies[i].name,
               results |-> StrategyScan(component.strategies[i], argument) ] ]
    /\ upc' = "returned"
    /\ UNCHANGED <<engineVars, inputVars, callerVars, now, signalVars,
                   screenVars, component, argument>>

NextDetectors == ConstructStrategies \/ ScanEveryStrategy

SpecDetectors == InitDetectors /\ [][NextDetectors]_vars

-----------------------------------------------------------------------------
(* The single-ticker fetch with retries: DataFetcher.fetch_single_stock    *)
(* (src/src/data_fetcher.py:64-133) and DataSourceBase._retry_fetch        *)
(* (src/src/data_fetcher_multi.py:31-49).  The fetcher object is its class, *)
(* request_delay in seconds and max_retries; the call in progress is its    *)
(* retry_count and the message of the exception being handled; the record   *)
(* of the fetch is the number of requests made, the waits slept before the  *)
(* retries and, at the end, the value returned.                             *)

\* Largest max_retries a fetcher is built with (3 is the default).
MaxRetries == 3

\* request_delay: the defaults of DataFetcher (2.0) and of the multi-source
\* fetcher (10.0), and the 5.0 main.py passes.
RequestDelays == {2, 5, 10}

\* What str(e) contains: the keywords the handlers look for, and a message
\* with none of them.
ErrorMessages == {"Rate limited", "Too Many Requests", "429", "timed out"}

\* The rate-limit test of each handler (data_fetcher.py:124,
\* data_fetcher_multi.py:41).
RateLimitKeywords(self) ==
    IF self.class = "DataFetcher"
    THEN {"Rate limited", "Too Many Requests"}
    ELSE {"Rate limited", "Too Many Requests", "429"}

\* A retry one past the limit: retry_count <= self.max_retries.
MayRetryOnceMore(self, retry_count) == retry_count <= self.max_retries

\* retry_count < self.max_retries (data_fetcher.py:125,
\* data_fetcher_multi.py:42).
MayRetry(self, retry_count) == retry_count < self.max_retries

\* wait_time = self.request_delay * (2 ** retry_count).
WaitTime(self, retry_count) == self.request_delay * (2 ^ retry_count)

InitFetch ==
    /\ IdleEngine
    /\ IdleCaller
    /\ IdleSignals
    /\ IdleScreening
    /\ upc = "ready"
    /\ component = EmptyDict
    /\ argument = EmptyDict
    /\ returned = EmptyDict

\* The constructor and the call with the default retry_count = 0.
ConstructFetcher ==
    /\ upc = "ready"
    /\ \E class \in {"DataFetcher", "DataSourceBase"},
          request_delay \in RequestDelays, max_retries \in 0..MaxRetries :
         component' = [ class |-> class, request_delay |-> request_delay,
                        max_retries |-> max_retries ]
    /\ argument' = [retry_count |-> 0, error_msg |-> ""]
    /\ returned' = [requests |-> 0, slept |-> <<>>]
    /\ upc' = "try"
    /\ UNCHANGED <<engineVars, inputVars, callerVars, now, signalVars, screenVars>>

\* The try block: the request returns rows, returns none, or raises.
TryFetch ==
    /\ upc = "try"
    /\ \/ /\ \E value \in {"df", "None"} :
               returned' = [ requests |-> returned.requests + 1,
                             slept    |-> returned.slept,
                             value    |-> value ]
          /\ upc' = "returned"
          /\ UNCHANGED argument
       \/ /\ \E error_msg \in ErrorMessages :
               argument' = [argument EXCEPT !.error_msg = error_msg]
          /\ returned' = [returned EXCEPT !.requests = @ + 1]
          /\ upc' = "except"
    /\ UNCHANGED <<engineVars, inputVars, callerVars, now, signalVars,
                   screenVars, component>>

\* The except clause: sleep and call again with retry_count + 1 on a
\* rate-limit error while retries are left, else log and return None.
HandleException ==
    /\ upc = "except"
    /\ IF /\ argument.error_msg \in RateLimitKeywords(component)
          /\ MayRetry(component, argument.retry_count)
       THEN /\ returned' =
                 [ returned EXCEPT
                     !.slept = Append(@, WaitTime(component, argument.retry_count)) ]
            /\ argument' = [ retry_count |-> argument.retry_count + 1,
                             error_msg   |-> "" ]
            /\ upc' = "try"
       ELSE /\ returned' = [ requests |-> returned.requests,
                             slept    |-> returned.slept,
                             value    |-> "None" ]
            /\ upc' = "returned"
            /\ UNCHANGED argument
    /\ UNCHANGED <<engineVars, inputVars, callerVars, now, signalVars,
                   screenVars, component>>

NextFetch == ConstructFetcher \/ TryFetch \/ HandleException

SpecFetch == InitFetch /\ [][NextFetch]_vars

\* The call runs to its end: no step of it waits on anything but the
\* request and the sleep, which both come back.
SpecFetchFair == SpecFetch /\ WF_vars(NextFetch)

\* The call was made on a frame with at least one row.
ScoredBars ==
    /\ upc = "returned"
    /\ ~IsNone(argument)
    /\ argument.rows # 0
    /\ "raised" \notin DOMAIN returned

\* Every moving average of the latest row is present and has a value.
MaKnown(latest) ==
    \A c \in MaColumns : c \in DOMAIN latest /\ ~IsNa(latest[c])

\* How many of close > sma_5, sma_5 > sma_10, sma_10 > sma_20 and
\* sma_20 > sma_50 the latest row satisfies, all four averages known.
SatisfiedCount(latest) ==
    Cardinality({ pair \in { <<"close", "sma_5">>, <<"sma_5", "sma_10">>,
                             <<"sma_10", "sma_20">>, <<"sma_20", "sma_50">> } :
                    ~IsNa(latest[pair[1]]) /\ latest[pair[1]] > latest[pair[2]] })

ClaimedMaScore == (0 :> 0) @@ (1 :> 25) @@ (2 :> 50) @@ (3 :> 75) @@ (4 :> 100)

\* C11: with the four moving averages known, the MA-alignment sub-score is
\* 0, 25, 50, 75 or 100 for 0, 1, 2, 3 or 4 satisfied conditions among
\* close > sma_5, sma_5 > sma_10, sma_10 > sma_20, sma_20 > sma_50, a table
\* that never decreases in the count.
C11_MaAlignmentByCount ==
    /\ \A m, n \in 0..4 : m <= n => ClaimedMaScore[m] <= ClaimedMaScore[n]
    /\ (ScoredBars /\ MaKnown(argument.latest)) =>
          returned.components.ma_alignment.score =
              Pts(ClaimedMaScore[SatisfiedCount(argument.latest)])

\* A scored frame with sma_5 = sma_10 below the close and above sma_20 >
\* sma_50: three conditions hold, the score is 75.
C11_Witness ==
    /\ ScoredBars
    /\ MaKnown(argument.latest)
    /\ argument.latest["sma_5"] = argument.latest["sma_10"]
    /\ SatisfiedCount(argument.latest) = 3
    /\ returned.components.ma_alignment.score = Pts(75)

\* C12: if any of sma_5, sma_10, sma_20, sma_50 is missing on the latest
\* row, as a NaN or as an absent column, the MA-alignment sub-score is 0.
C12_MissingMaScoresZero ==
    (ScoredBars /\ ~MaKnown(argument.latest)) =>
        returned.components.ma_alignment.score = 0

\* C13: the ADX sub-score is 100 exactly when ADX, +DI and -DI are known,
\* 25 <= ADX <= 40 and +DI > -DI; it is 0 whenever +DI <= -DI and whenever
\* one of the three is missing.
C13_AdxStrength ==
    ScoredBars =>
        LET latest == argument.latest
            known  == \A c \in {"adx", "plus_di", "minus_di"} :
                          c \in DOMAIN latest /\ ~IsNa(latest[c])
            score  == returned.components.adx_strength.score
        IN  /\ score = Pts(100) <=>
                  /\ known
                  /\ Pts(25) <= latest["adx"] /\ latest["adx"] <= Pts(40)
                  /\ latest["plus_di"] > latest["minus_di"]
            /\ (known /\ latest["plus_di"] <= latest["minus_di"]) => score = 0
            /\ ~known => score = 0

\* A scored frame with ADX exactly 25 and +DI above -DI: the score is 100.
C13_Witness ==
    /\ ScoredBars
    /\ {"adx", "plus_di", "minus_di"} \subseteq DOMAIN argument.latest
    /\ argument.latest["adx"] = Pts(25)
    /\ argument.latest["plus_di"] = 28000
    /\ argument.latest["minus_di"] = 15000
    /\ returned.components.adx_strength.score = Pts(100)


\* C14: score returns total = the weighted sum of the four sub-scores, 100
\* when all four are 100 under the default weights, and pass_threshold is
\* true exactly when the returned total is at least 50.
C14_WeightedTotal ==
    ScoredBars =>
      LET c == returned.components
          w == component.weights
      IN  /\ 1000 * returned.total =
               c.ma_alignment.score * w.ma_alignment +
               c.adx_strength.score * w.adx_strength +
               c.price_momentum.score * w.price_momentum +
               c.price_position.score * w.price_position
          /\ ( /\ w = trend_weights
               /\ \A k \in DOMAIN c : c[k].score = Pts(100) )
             => returned.total = Pts(100)
          /\ returned.pass_threshold <=> returned.total >= Pts(50)


\* score was called with None or with a frame of no rows.
ScoredNoBars ==
    /\ upc = "returned"
    /\ IsNone(argument) \/ argument.rows = 0

\* C15: on an empty or absent bar sequence a scorer holding its four weights
\* returns, without raising, total 0, four component scores of 0,
\* pass_threshold false and details tagged with an error.
C15_EmptyScore ==
    (ScoredNoBars /\ MissingWeight(component) = "") =>
      /\ "raised" \notin DOMAIN returned
      /\ returned.total = 0
      /\ DOMAIN returned.components =
           {"ma_alignment", "adx_strength", "price_momentum", "price_position"}
      /\ \A k \in DOMAIN returned.components :
           returned.components[k].score = 0
      /\ returned.pass_threshold = FALSE
      /\ "error" \in DOMAIN returned.details

C15_Witness ==
    /\ ScoredNoBars
    /\ IsNone(argument)
    /\ component.weights = ThirdsWeights
    /\ "raised" \notin DOMAIN returned
    /\ returned.total = 0


\* C20: a weights mapping that lacks a required key is raised when the
\* component is constructed: no component is ever constructed holding such
\* a mapping, and no call of score raises for a missing weight.
C20_ConfigFaultAtConstruction ==
    /\ upc \in {"constructed", "returned"} => MissingWeight(component) = ""
    /\ upc = "returned" => "raised" \notin DOMAIN returned


\* A frame on which each of the three filters raises: 100 rows or more,
\* every required column, and the close label twice.
RaisesInEveryFilter(df) ==
    /\ ~IsNone(df)
    /\ df.rows >= min_data_points
    /\ {"close", "volume", "high", "low"} \subseteq df.columns
    /\ "close" \in Duplicated(df)

\* C17: each of the three hard filters puts every input ticker in exactly
\* one of passed and rejected; a ticker whose processing raises is in
\* rejected with the exception text and the other tickers are still
\* processed; every rejection has a non-empty reason.
C17_EveryTickerAccountedFor ==
    upc = "returned" =>
      LET passed   == Keys(returned.passed)
          rejected == DOMAIN returned.rejected
      IN  /\ passed \cup rejected = Keys(argument)
          /\ passed \cap rejected = {}
          /\ \A i \in 1..Len(returned.passed) :
               \E j \in 1..Len(argument) : returned.passed[i] = argument[j]
          /\ \A t \in rejected : returned.rejected[t].text # ""
          /\ \A t \in Keys(argument) :
               RaisesInEveryFilter(ValueOf(argument, t)) =>
                 /\ t \in rejected
                 /\ returned.rejected[t] = Reason("error", <<AmbiguousTruth>>)

C17_Witness ==
    /\ upc = "returned"
    /\ component.name = "DataQualityFilter"
    /\ Len(argument) = 2
    /\ RaisesInEveryFilter(argument[1].df)
    /\ argument[1].ticker \in DOMAIN returned.rejected
    /\ argument[2].ticker \in Keys(returned.passed)


\* The tickers the liquidity filter is given whose latest close is below
\* min_price.
BelowMinPrice ==
    { t \in Loaded :
        /\ DataQualityCheck(FrameOf(t)).passed
        /\ Lt(FrameOf(t).latest["close"], min_price) }

\* C16: a ticker whose latest close is below min_price is in the liquidity
\* filter's rejected dict with a reason that carries the price and the
\* threshold, is not in its passed dict, and never has a trend score, a
\* liquidity score, a signal event or a place in the final results.
C16_BelowMinPriceNeverScored ==
    \A t \in BelowMinPrice :
        /\ pc \in AfterLiquidity =>
             /\ t \in DOMAIN liquidity_rejected
             /\ liquidity_rejected[t] =
                  Reason("price_too_low",
                         <<Round2(FrameOf(t).latest["close"]), min_price>>)
             /\ t \notin Keys(stock_data)
        /\ t \notin DOMAIN trend_scores
        /\ t \notin DOMAIN liquidity_scores
        /\ t \notin TickersWithSignal(strategy_results)
        /\ pc = "done" =>
             \A i \in 1..Len(result.final_results) :
                result.final_results[i].ticker # t

\* The strategies have run over BBB while AAA, a 4.50 dollar stock, was
\* rejected by the liquidity filter.
C16_Witness ==
    /\ pc = "scanned"
    /\ BelowMinPrice = {"AAA"}
    /\ liquidity_rejected["AAA"].args = <<4500, min_price>>
    /\ DOMAIN trend_scores = {"BBB"}
    /\ DOMAIN liquidity_scores = {"BBB"}


\* The trends the filter reads for one ticker of its input: the daily one
\* from the ticker's frame, the weekly one from the weekly file, "unknown"
\* when there is none or when reading it raises.
DailyTrendOf(t) == GetDailyTrend(ValueOf(argument, t))
WeeklyTrendOf(t) ==
    LET weekly_df == LoadWeeklyData(component, t)
        weekly    == CalculateWeeklyMaSlope(weekly_df)
    IN  IF IsNone(weekly_df) \/ "raised" \in DOMAIN weekly THEN "unknown"
        ELSE weekly.trend

\* The tickers with a direct conflict: daily up with weekly down, or daily
\* down with weekly up.
Conflicting ==
    { t \in Keys(argument) :
        \/ DailyTrendOf(t) = "up" /\ WeeklyTrendOf(t) = "down"
        \/ DailyTrendOf(t) = "down" /\ WeeklyTrendOf(t) = "up" }

WeeklyFiltered == upc = "returned" /\ "enabled" \in DOMAIN component

\* C18: the enabled filter puts a ticker with a direct conflict in rejected
\* with a conflict reason and not in passed, and passed and rejected are
\* always disjoint.
C18_ConflictRejected ==
    WeeklyFiltered =>
      /\ component.enabled =>
           \A t \in Conflicting :
              /\ t \in DOMAIN returned.rejected
              /\ returned.rejected[t] \in
                   {"conflict_daily_up_weekly_down", "conflict_daily_down_weekly_up"}
              /\ t \notin Keys(returned.passed)
      /\ Keys(returned.passed) \cap DOMAIN returned.rejected = {}

\* C19: the filter never rejects on missing information: only a ticker with
\* a direct conflict is ever in rejected, and every other ticker (weekly
\* data absent or too short, a trend unknown or sideways, an analysis that
\* raises) is in passed; a disabled filter returns its input and an empty
\* rejected dict.
C19_NeverRejectsOnMissingInformation ==
    WeeklyFiltered =>
      IF component.enabled
      THEN \A t \in Keys(argument) \ Conflicting :
              /\ t \in Keys(returned.passed)
              /\ t \notin DOMAIN returned.rejected
      ELSE /\ returned.passed = argument
           /\ returned.rejected = EmptyDict

\* A daily uptrend passed with a weekly file of 23 weeks, next to a
\* conflicting ticker.
C19_Witness ==
    /\ WeeklyFiltered
    /\ component.enabled
    /\ component.data_storage # None
    /\ Len(argument) = 2
    /\ argument[1].ticker \in Conflicting
    /\ argument[2].df = DailyUp
    /\ component.data_storage[argument[2].ticker] = WeeklyShort
    /\ argument[2].ticker \in Keys(returned.passed)
    /\ DOMAIN returned.rejected = {argument[1].ticker}


\* C21: a screening run always completes and returns its result, whatever
\* survives the filters: run_once never ends in an exception, not even when
\* every ticker was rejected.
C21_RunAlwaysReturns == pc # "raised"

\* C22: every result of run_screening carries the total input, the
\* survivors after each of the three filters and the rejected count of each
\* filter, and the counts add up stage by stage.
C22_FilterStatsConsistent ==
    pc \in {"done", "returned", "raised"} =>
      LET stats == result.filter_stats
      IN  /\ DOMAIN stats =
               SummaryKeys \cup
               {"data_quality_rejected", "liquidity_rejected", "trend_rejected"}
          /\ stats.total_input =
               stats.after_data_quality + stats.data_quality_rejected
          /\ stats.after_data_quality =
               stats.after_liquidity + stats.liquidity_rejected
          /\ stats.after_liquidity = stats.after_trend + stats.trend_rejected


\* Whether the detector of a strategy object raises on, and fires on, a
\* frame.
RaisesIn(strategy, df) ==
    CASE strategy.name = "MA_Crossover" -> MACrossoverRaises(df, strategy.config)
      [] strategy.name = "Volume_Surge" -> VolumeSurgeRaises(df, strategy.config)
      [] strategy.name = "Breakout"     -> BreakoutRaises(df, strategy.config)
      [] strategy.name = "RSI"          -> RSIRaises(df, strategy.config)
FiresOn(strategy, df) ==
    CASE strategy.name = "MA_Crossover" -> MACrossoverHit(df, strategy.config)
      [] strategy.name = "Volume_Surge" -> VolumeSurgeHit(df, strategy.config)
      [] strategy.name = "Breakout"     -> BreakoutHit(df, strategy.config)
      [] strategy.name = "RSI"          -> RSISignalType(df, strategy.config) # ""

\* The tickers of a list of events.
EventTickers(results) == { results[i].ticker : i \in 1..Len(results) }

Scanned == upc = "returned" /\ "strategies" \in DOMAIN component

\* C23: an exception raised for one ticker in a detector's scan is caught:
\* every strategy of the screener has its entry in the results, a ticker on
\* which a detector raised has no event of it, and every other ticker that
\* meets the detector's conditions has its event, wherever it stands in the
\* input.
C23_DetectorFaultContained ==
    Scanned =>
      /\ Len(returned) = Len(component.strategies)
      /\ \A i \in 1..Len(returned) :
           LET strategy == component.strategies[i]
           IN  /\ returned[i].name = strategy.name
               /\ \A t \in Keys(argument) :
                    /\ RaisesIn(strategy, ValueOf(argument, t)) =>
                         t \notin EventTickers(returned[i].results)
                    /\ FiresOn(strategy, ValueOf(argument, t)) =>
                         t \in EventTickers(returned[i].results)

\* The volume surge detector raised on the first ticker and reported the
\* second, and the detectors after it ran and reported the second too.
C23_Witness ==
    /\ Scanned
    /\ Len(argument) = 2
    /\ Len(returned) = 4
    /\ RaisesIn(component.strategies[2], argument[1].df)
    /\ EventTickers(returned[2].results) = {argument[2].ticker}
    /\ EventTickers(returned[3].results) = {argument[2].ticker}


\* The steps of add_all_indicators that the configuration asks for and whose
\* calculation has the columns it reads in the stored frame.
ComputableSteps(df, indicators_config) ==
    { i \in 1..Len(IndicatorSteps) :
        /\ IndicatorSteps[i].key \in indicators_config \cup {""}
        /\ IndicatorSteps[i].reads \subseteq df.columns \cap RawColumns }

\* C24: add_all_indicators isolates the indicators from one another: when it
\* has run on the loaded frames, every configured indicator that can be
\* computed from a frame's columns is in the frame, the indicators after one
\* that failed and the two price-change columns included.
C24_IndicatorsIsolated ==
    pc = "indicators" =>
      \A i \in 1..Len(stock_data) :
        LET df == stock_data[i].df
        IN  df.rows > 0 =>
              \A s \in ComputableSteps(df, config.indicators) :
                IndicatorSteps[s].adds \subseteq df.columns


\* The steps at which both scoring loops have run.
AfterScoring == {"liquidity_scored", "scanned", "done", "returned", "raised"}

\* C25: a fault of the trend scorer or of the liquidity scorer on one
\* ticker is contained: no exception of a scorer ends run_screening, and
\* once the two scoring loops have run every survivor of the filters has a
\* trend score and a liquidity score.
C25_ScorerFaultContained ==
    /\ pc # "score_raised"
    /\ pc \in AfterScoring /\ Len(stock_data) # 0 =>
         Keys(stock_data) \subseteq DOMAIN trend_scores \cap DOMAIN liquidity_scores


TrendFiltered ==
    upc = "returned" /\ "name" \in DOMAIN component /\ component.name = "TrendFilter"

\* sma_20 on the latest row and on the row 5 rows before it.
Ma20Latest(df) == df.series.sma_20_tail[5]
Ma20FiveBarsEarlier(df) == df.series.sma_20_back

\* C26: with require_ma20_uptrend (the default) the trend filter passes a
\* ticker only if its frame has the sma_20 column, sma_20 is known on the
\* latest row and on the row 5 rows earlier, and the latest value is above
\* the earlier one, so that the fractional change between the two is
\* strictly positive.
C26_Ma20UptrendOverFiveBars ==
    TrendFiltered /\ require_ma20_uptrend =>
      \A i \in 1..Len(returned.passed) :
        LET df == returned.passed[i].df
        IN  /\ "sma_20" \in df.columns
            /\ ~IsNa(Ma20Latest(df))
            /\ ~IsNa(Ma20FiveBarsEarlier(df))
            /\ Gt(Ma20Latest(df), Ma20FiveBarsEarlier(df))


\* C27: every ticker the liquidity filter passed gets, from
\* calculate_liquidity_score on the same frame and configuration, a score
\* from 60 to 100: neither the neutral 50 nor a value of the branch below
\* the threshold.
C27_PassedScoresAtLeast60 ==
    upc = "scored" =>
      \A t \in Keys(returned.passed) :
        /\ Ge(returned.liquidity_scores[t], Pts(60))
        /\ Le(returned.liquidity_scores[t], Pts(100))


\* The golden-cross test: the short average at or below the long one on the
\* previous row and above it on the latest.
GoldenCross(df) ==
    /\ {"sma_20", "sma_50"} \subseteq df.columns
    /\ Le(df.previous["sma_20"], df.previous["sma_50"])
    /\ Gt(df.latest["sma_20"], df.latest["sma_50"])

\* The latest volume_ratio is available and not below 1.0.
VolumeConfirmed(df) ==
    "volume_ratio" \in df.columns /\ Ge(df.latest["volume_ratio"], Pts(1))

\* C28: the MA crossover detector reports a ticker only on a golden cross
\* and, with volume confirmation enabled, only when the latest volume_ratio
\* is available and not below 1.0; and it reports every such ticker it can
\* scan.
C28_GoldenCrossVolumeConfirmed ==
    Scanned =>
      \A i \in 1..Len(returned) :
        returned[i].name = "MA_Crossover" =>
          LET volume_confirm ==
                  DictGet(component.strategies[i].config, "volume_confirm", TRUE)
          IN  \A t \in Keys(argument) :
                LET df == ValueOf(argument, t)
                IN  /\ t \in EventTickers(returned[i].results) =>
                         /\ GoldenCross(df)
                         /\ volume_confirm => VolumeConfirmed(df)
                    /\ ( /\ Scannable(df, {"close", "volume"})
                         /\ df.rows >= 50 + 1
                         /\ ~MACrossoverRaises(df, component.strategies[i].config)
                         /\ GoldenCross(df)
                         /\ volume_confirm => VolumeConfirmed(df) ) =>
                         t \in EventTickers(returned[i].results)


\* The strategies, by position in strategy_results, that reported ticker t.
FiredFor(sr, t) == { i \in 1..Len(sr) : t \in EventTickers(sr[i].results) }

\* C29: in a pipeline run no strategy reports a ticker twice and no two
\* strategies share a name, so the signals score_all groups under a ticker
\* are as many as the strategies that fired for it.
C29_OneSignalPerStrategy ==
    pc \in {"scanned", "done", "returned", "raised"} =>
      /\ \A i, j \in 1..Len(strategy_results) :
           strategy_results[i].name = strategy_results[j].name => i = j
      /\ \A i \in 1..Len(strategy_results) :
           Cardinality(EventTickers(strategy_results[i].results)) =
             Len(strategy_results[i].results)
      /\ LET groups == GroupSignalsByTicker(strategy_results)
         IN  \A g \in 1..Len(groups) :
               Len(groups[g].signals) =
                 Cardinality(FiredFor(strategy_results, groups[g].ticker))

\* A ticker two strategies fired for, ranked with its two signals.
C29_Witness ==
    /\ pc = "done"
    /\ \E i \in 1..Len(result.final_results) :
         /\ Len(result.final_results[i].strategy_signals) = 2
         /\ Cardinality(FiredFor(strategy_results,
                                 result.final_results[i].ticker)) = 2


\* The fetch has made its first request.
Fetching == upc \in {"try", "except", "returned"} /\ "class" \in DOMAIN component

\* What holds at every step of a fetch: one request per call, one wait per
\* retry, the wait before retry k+1 being request_delay * 2^k, and never
\* more than max_retries retries.
FetchBounded ==
    Fetching =>
      /\ Len(returned.slept) = argument.retry_count
      /\ argument.retry_count <= component.max_retries
      /\ returned.requests <= component.max_retries + 1
      /\ returned.requests =
           argument.retry_count + (IF upc = "try" THEN 0 ELSE 1)
      /\ \A k \in 0..(Len(returned.slept) - 1) :
           returned.slept[k + 1] = component.request_delay * (2 ^ k)
      /\ upc = "returned" =>
           /\ returned.value \in {"df", "None"}
           /\ argument.error_msg # "" =>
                /\ returned.value = "None"
                /\ \/ argument.error_msg \notin RateLimitKeywords(component)
                   \/ argument.retry_count = component.max_retries

\* C30: a single-ticker fetch terminates with a frame or None after at most
\* max_retries + 1 requests, having waited request_delay * 2^k before retry
\* k + 1, and it retries only on a rate-limit error with retries left.
C30_FetchTerminates ==
    /\ []FetchBounded
    /\ <>(upc = "returned")

\* Every retry used up on rate-limit errors, and None returned.
C30_Witness ==
    /\ Fetching
    /\ upc = "returned"
    /\ component.max_retries >= 2
    /\ Len(returned.slept) = component.max_retries
    /\ returned.requests = component.max_retries + 1
    /\ argument.error_msg \in RateLimitKeywords(component)
    /\ returned.value = "None"

=============================================================================
